---- MODULE Spec2Model ----
(***************************************************************************)
(* SavvyFinance: the REST handlers of server/routes.ts over the storage    *)
(* layer of server/storage.ts, with the budget-alert check that runs after *)
(* every expense creation.                                                 *)
(***************************************************************************)
EXTENDS Integers, Sequences, FiniteSets, TLC

\* ---------------------------------------------------------------------------
\* IEEE-754 binary64 arithmetic, as JavaScript numbers compute it.
\* parseFloat(t.amount), the + of reduce, totalSpent / budgetAmount and * 100 of
\* checkBudgetAlerts are double operations, each rounded to nearest, ties to even.
\* A natural number is a little-endian sequence of limbs in 0..BASE-1 (<<>> is 0);
\* a non-negative double is [m, e] with value m * 2^e and m of exactly 53 bits
\* (FZero is 0).  Limbs keep every product below 2^31.
\* ---------------------------------------------------------------------------
BASE == 2 ^ 24

Limb(a, i) == IF 1 <= i /\ i <= Len(a) THEN a[i] ELSE 0

RECURSIVE BTrim(_)
BTrim(a) ==
  IF a = <<>> THEN a
  ELSE IF a[Len(a)] = 0 THEN BTrim(SubSeq(a, 1, Len(a) - 1)) ELSE a

\* n < 2^31
BFromInt(n) ==
  IF n = 0 THEN <<>>
  ELSE IF n < BASE THEN <<n>> ELSE <<n % BASE, n \div BASE>>

BToInt(a) == Limb(a, 1) + BASE * Limb(a, 2)

RECURSIVE BAddC(_, _, _, _)
BAddC(a, b, i, c) ==
  IF i > Len(a) /\ i > Len(b)
  THEN IF c = 0 THEN <<>> ELSE <<c>>
  ELSE LET s == Limb(a, i) + Limb(b, i) + c
       IN  <<s % BASE>> \o BAddC(a, b, i + 1, s \div BASE)

BAdd(a, b) == BAddC(a, b, 1, 0)

RECURSIVE BSubC(_, _, _, _)
BSubC(a, b, i, br) ==
  IF i > Len(a) THEN <<>>
  ELSE LET d == a[i] - Limb(b, i) - br
       IN  IF d < 0 THEN <<d + BASE>> \o BSubC(a, b, i + 1, 1)
                    ELSE <<d>> \o BSubC(a, b, i + 1, 0)

BSub(a, b) == BTrim(BSubC(a, b, 1, 0))

RECURSIVE BLtAt(_, _, _)
BLtAt(a, b, i) ==
  IF i = 0 THEN FALSE
  ELSE IF a[i] # b[i] THEN a[i] < b[i] ELSE BLtAt(a, b, i - 1)

BLt(a, b) == IF Len(a) # Len(b) THEN Len(a) < Len(b) ELSE BLtAt(a, b, Len(a))

RECURSIVE BMulC(_, _, _, _)
BMulC(a, k, i, c) ==
  IF i > Len(a)
  THEN IF c = 0 THEN <<>> ELSE <<c>>
  ELSE LET p == a[i] * k + c
       IN  <<p % BASE>> \o BMulC(a, k, i + 1, p \div BASE)

\* a * k for a small factor k (k <= 127)
BMulS(a, k) == BTrim(BMulC(a, k, 1, 0))

RECURSIVE BMulPow10(_, _)
BMulPow10(a, d) == IF d = 0 THEN a ELSE BMulPow10(BMulS(a, 10), d - 1)

RECURSIVE BDivSC(_, _, _, _)
BDivSC(a, k, i, r) ==
  IF i = 0 THEN [q |-> <<>>, r |-> r]
  ELSE LET n == r * BASE + a[i]
           h == BDivSC(a, k, i - 1, n % k)
       IN  [q |-> h.q \o <<n \div k>>, r |-> h.r]

\* a divided by a small k (k <= 127): quotient and remainder
BDivS(a, k) ==
  LET h == BDivSC(a, k, Len(a), 0) IN [q |-> BTrim(h.q), r |-> h.r]

BOdd(a) == a # <<>> /\ a[1] % 2 = 1

RECURSIVE BitLenInt(_)
BitLenInt(n) == IF n = 0 THEN 0 ELSE 1 + BitLenInt(n \div 2)

BitLen(a) == IF a = <<>> THEN 0 ELSE 24 * (Len(a) - 1) + BitLenInt(a[Len(a)])

RECURSIVE BShlC(_, _, _)
BShlC(a, p, i) ==
  IF i > Len(a) + 1 THEN <<>>
  ELSE <<(Limb(a, i) % (BASE \div p)) * p + (Limb(a, i - 1) \div (BASE \div p))>>
       \o BShlC(a, p, i + 1)

\* a * 2^s
RECURSIVE BShl(_, _)
BShl(a, s) ==
  IF s = 0 \/ a = <<>> THEN a
  ELSE IF s >= 24 THEN <<0>> \o BShl(a, s - 24)
  ELSE BTrim(BShlC(a, 2 ^ s, 1))

RECURSIVE BShrC(_, _, _)
BShrC(a, p, i) ==
  IF i > Len(a) THEN <<>>
  ELSE <<(a[i] \div p) + (Limb(a, i + 1) % p) * (BASE \div p)>> \o BShrC(a, p, i + 1)

\* floor(a / 2^s), and whether the bits shifted out were all zero
RECURSIVE BShrR(_, _)
BShrR(a, s) ==
  IF s = 0 \/ a = <<>> THEN [q |-> a, z |-> TRUE]
  ELSE IF s >= 24
       THEN LET h == BShrR(Tail(a), s - 24) IN [q |-> h.q, z |-> a[1] = 0 /\ h.z]
  ELSE [q |-> BTrim(BShrC(a, 2 ^ s, 1)), z |-> a[1] % (2 ^ s) = 0]

BHalf(a) == BShrR(a, 1).q

\* long division, six quotient bits at a time (R < 64 * D in BDivDigit)
RECURSIVE BDivFix(_, _, _)
BDivFix(R, D, q) == IF BLt(R, D) THEN [q |-> q, r |-> R] ELSE BDivFix(BSub(R, D), D, q + 1)

BDivDigit(R, D) ==
  LET sh == BitLen(D) - 24
  IN  IF sh <= 0
      THEN [q |-> BToInt(R) \div BToInt(D), r |-> BFromInt(BToInt(R) % BToInt(D))]
      ELSE LET q0 == BToInt(BShrR(R, sh).q) \div (BToInt(BShrR(D, sh).q) + 1)
           IN  BDivFix(BSub(R, BMulS(D, q0)), D, q0)

BDivJoin(hq, l) == [q |-> BAdd(BShl(hq, 6), BFromInt(l.q)), r |-> l.r]

BDivStep(h, D) == BDivJoin(h.q, BDivDigit(h.r, D))

RECURSIVE BDivMod(_, _)
BDivMod(N, D) ==
  IF BLt(N, D) THEN [q |-> <<>>, r |-> N]
  ELSE BDivStep(BDivMod(N, BShl(D, 6)), D)

FZero == [m |-> <<>>, e |-> 0]

\* N * 2^e (plus, with sticky, a non-zero fraction below N's last bit) rounded to
\* the nearest double, ties to even
Round53(N, e, sticky) ==
  LET L == BitLen(N)
  IN  IF L <= 53 THEN [m |-> BShl(N, 53 - L), e |-> e - (53 - L)]
      ELSE LET h  == BShrR(N, L - 54)
               m0 == BHalf(h.q)
               up == BOdd(h.q) /\ (sticky \/ ~h.z \/ BOdd(m0))
               m1 == IF up THEN BAdd(m0, <<1>>) ELSE m0
           IN  IF BitLen(m1) = 54 THEN [m |-> BHalf(m1), e |-> e + L - 52]
                                  ELSE [m |-> m1, e |-> e + L - 53]

FAdd(x, y) ==
  IF x.m = <<>> THEN y
  ELSE IF y.m = <<>> THEN x
  ELSE LET e0 == IF x.e < y.e THEN x.e ELSE y.e
       IN  Round53(BAdd(BShl(x.m, x.e - e0), BShl(y.m, y.e - e0)), e0, FALSE)

FSub(x, y) ==
  IF y.m = <<>> THEN x
  ELSE LET e0 == IF x.e < y.e THEN x.e ELSE y.e
           d  == BSub(BShl(x.m, x.e - e0), BShl(y.m, y.e - e0))
       IN  IF d = <<>> THEN FZero ELSE Round53(d, e0, FALSE)

FDiv(x, y) ==
  IF x.m = <<>> THEN FZero
  ELSE LET dm == BDivMod(BShl(x.m, 55), y.m)
       IN  Round53(dm.q, x.e - y.e - 55, dm.r # <<>>)

FMulS(x, k) == IF x.m = <<>> THEN FZero ELSE Round53(BMulS(x.m, k), x.e, FALSE)

\* x >= k for a small non-negative integer k
FGeS(x, k) ==
  IF x.m = <<>> THEN k <= 0
  ELSE IF x.e >= 0 THEN ~BLt(BShl(x.m, x.e), BFromInt(k))
  ELSE ~BLt(x.m, BShl(BFromInt(k), 0 - x.e))

\* The integer nearest to x * 10^d, halves up: the digits Number.toFixed(d) and
\* toLocaleString (d = 3, its maximumFractionDigits) print
RoundDecimals(x, d) ==
  IF x.m = <<>> THEN 0
  ELSE IF x.e >= 0 THEN BToInt(BShl(BMulPow10(x.m, d), x.e))
  ELSE BToInt(BShrR(BAdd(BMulPow10(x.m, d), BShl(<<1>>, 0 - x.e - 1)), 0 - x.e).q)

\* parseFloat of the decimal string of c hundredths (numeric(12,2) amounts)
parseFloat(c) ==
  IF c = 0 THEN FZero
  ELSE LET dm == BDivS(BShl(BFromInt(c), 60), 100)
       IN  Round53(dm.q, 0 - 60, dm.r # 0)

\* ---------------------------------------------------------------------------
\* State
\* ---------------------------------------------------------------------------
VARIABLES
  users,          \* table users: rows [id, username, email, firstName, lastName]
  transactions,   \* table transactions: rows [id, userId, amount, category, type, date]
  budgets,        \* table budgets: rows [id, userId, category, amount, month, year]
  goals,          \* table goals: rows [id, userId, title, targetAmount, currentAmount, isCompleted]
  notifications,  \* table notifications: rows [id, userId, title, message, type, isRead]
  nextId,         \* per table, the next primary key gen_random_uuid() hands out
  now,            \* the wall clock, new Date()
  resp,           \* the last request served and its response (a log)
  requests        \* the POST /api/transactions requests being handled, each with
                  \* the await it stands at and its locals

vars ==
  <<users, transactions, budgets, goals, notifications, nextId, now, resp, requests>>

db == <<users, transactions, budgets, goals, notifications, nextId>>

\* Amounts are numeric(12,2) values, held as integers of hundredths.
\* Time is counted in ticks; a calendar month has TicksPerMonth of them.  The
\* ticks up to TicksPerMonth - 3 are on the 1st (tick 0 at 00:00:00.000, the
\* others later that day, before 23:59:59), tick TicksPerMonth - 2 is the last
\* day at 23:59:59.000, and the last tick is later on that last day
\* (23:59:59.500).
TicksPerMonth == 3

Instant(year, month, tick) == ((year * 12) + (month - 1)) * TicksPerMonth + tick

getFullYear(d) == (d \div TicksPerMonth) \div 12

getMonth(d) == (d \div TicksPerMonth) % 12

\* new Date(year, month - 1, 1) and new Date(year, month, 0, 23, 59, 59)
startDate(year, month) == Instant(year, month, 0)

endDate(year, month) == Instant(year, month, TicksPerMonth - 2)

\* the month and year of the month numbered mi = year * 12 + (month - 1)
LeapYear(year) == year % 4 = 0 /\ (year % 100 # 0 \/ year % 400 = 0)

DaysIn(mi) ==
  LET month == (mi % 12) + 1
  IN  IF month = 2 THEN (IF LeapYear(mi \div 12) THEN 29 ELSE 28)
      ELSE IF month \in {4, 6, 9, 11} THEN 30
      ELSE 31

\* d.setMonth(d.getMonth() - months), as the least instant of the time line that
\* is not before it.  The day of the month and the time of day are kept; a day
\* the target month does not have rolls over into the first days of the month
\* after it (June 31 is July 1).
setMonth(d, months) ==
  LET mi     == d \div TicksPerMonth
      tick   == d % TicksPerMonth
      target == mi - months
  IN  IF tick < TicksPerMonth - 2 THEN target * TicksPerMonth + tick
      ELSE IF DaysIn(target) = DaysIn(mi) THEN target * TicksPerMonth + tick
      ELSE IF DaysIn(target) > DaysIn(mi)
           THEN target * TicksPerMonth + (TicksPerMonth - 2)
      ELSE (target + 1) * TicksPerMonth + (TicksPerMonth - 2)

\* TO_CHAR(date, 'YYYY-MM'), as <<year, month>>; the strings order as these do
TO_CHAR(d) == <<getFullYear(d), getMonth(d) + 1>>

KeyLess(a, b) == a[1] < b[1] \/ (a[1] = b[1] /\ a[2] < b[2])

categoryEnum == {"Food", "Bills"}

transactionTypeEnum == {"income", "expense"}

NoUser == 0

\* a query parameter the request does not carry
Absent == 0

\* JSON values of a text field: a JSON string is itself, a JSON number is written
\* with a leading #; z.string() accepts the strings only
JsonNumbers == {"#7"}

zString(v) == v \notin JsonNumbers

HasAll(body, fields) == fields \subseteq DOMAIN body

\* A request body is a record of the fields it carries.  The insert schemas omit
\* id, createdAt and userId: zod drops those keys from what parse returns.
insertTransactionSchema(body) ==
  /\ HasAll(body, {"amount", "description", "category", "type", "date"})
  /\ body.category \in categoryEnum
  /\ body.type \in transactionTypeEnum

insertTransactionSchemaPartial(body) ==
  /\ "category" \in DOMAIN body => body.category \in categoryEnum
  /\ "type" \in DOMAIN body => body.type \in transactionTypeEnum

insertBudgetSchema(body) ==
  /\ HasAll(body, {"category", "amount", "month", "year"})
  /\ body.category \in categoryEnum

insertBudgetSchemaPartial(body) ==
  "category" \in DOMAIN body => body.category \in categoryEnum

insertGoalSchema(body) ==
  /\ HasAll(body, {"title", "targetAmount"})
  /\ zString(body.title)

insertGoalSchemaPartial(body) == "title" \in DOMAIN body => zString(body.title)

\* Variant: parse returns the body with the keys the schema omits.
Unstripped(body, fields) == body

\* what parse returns: the schema's keys of the body
Parsed(body, fields) == [f \in (DOMAIN body) \cap fields |-> body[f]]

\* UPDATE ... SET data: the row with the fields of data replaced
SetFields(row, data) ==
  [f \in DOMAIN row |-> IF f \in DOMAIN data THEN data[f] ELSE row[f]]

\* ---------------------------------------------------------------------------
\* Storage (DatabaseStorage)
\* ---------------------------------------------------------------------------
RECURSIVE DescByDate(_)
\* the orders ORDER BY date DESC can return the rows in (ties in any order)
DescByDate(rows) ==
  IF rows = {} THEN {<<>>}
  ELSE UNION {{<<r>> \o s : s \in DescByDate(rows \ {r})} :
                r \in {x \in rows : \A y \in rows : x.date >= y.date}}

\* Variant: the range query without its user condition.
getTransactionsOfAllByDateRange(txs, userId, from, to) ==
  DescByDate({t \in txs : t.date >= from /\ t.date <= to})

getTransactionsByDateRange(txs, userId, from, to) ==
  DescByDate({t \in txs : t.userId = userId /\ t.date >= from /\ t.date <= to})

\* Variant: the lookup without its category condition.
getBudgetAnyCategory(userId, category, month, year) ==
  {b \in budgets : b.userId = userId /\ b.month = month /\ b.year = year}

\* the rows the query matches; the caller takes the first the database returns
getBudgetByCategory(userId, category, month, year) ==
  {b \in budgets : /\ b.userId = userId
                   /\ b.category = category
                   /\ b.month = month
                   /\ b.year = year}

\* the value INSERT stores in column f: the one given, else the column's default
Given(data, f, default) == IF f \in DOMAIN data THEN data[f] ELSE default

\* the row INSERT stores for {...validatedData, userId}
createTransaction(data, userId) ==
  [id |-> Given(data, "id", nextId.transactions), userId |-> userId, amount |-> data.amount,
   description |-> data.description, category |-> data.category,
   type |-> data.type, date |-> data.date]

updateTransaction(id, data) ==
  {IF t.id = id THEN SetFields(t, data) ELSE t : t \in transactions}

deleteTransaction(id) == {t \in transactions : t.id # id}

createBudget(data, userId) ==
  [id |-> Given(data, "id", nextId.budgets), userId |-> userId, category |-> data.category,
   amount |-> data.amount, month |-> data.month, year |-> data.year]

updateBudget(id, data) == {IF b.id = id THEN SetFields(b, data) ELSE b : b \in budgets}

deleteBudget(id) == {b \in budgets : b.id # id}

createGoal(data, userId) ==
  [id |-> Given(data, "id", nextId.goals), userId |-> userId, title |-> data.title,
   targetAmount |-> data.targetAmount, currentAmount |-> 0, isCompleted |-> FALSE]

updateGoal(id, data) == {IF g.id = id THEN SetFields(g, data) ELSE g : g \in goals}

deleteGoal(id) == {g \in goals : g.id # id}

createNotification(data) ==
  [id |-> nextId.notifications, userId |-> data.userId, title |-> data.title,
   message |-> data.message, type |-> data.type, isRead |-> FALSE]

\* Variant: marking as read dismisses the row.
markNotificationAsDismissed(id) == {n \in notifications : n.id # id}

\* Variant: marking flips the flag.
markNotificationToggled(id) ==
  {IF n.id = id THEN [n EXCEPT !.isRead = ~@] ELSE n : n \in notifications}

markNotificationAsRead(id) ==
  {IF n.id = id THEN [n EXCEPT !.isRead = TRUE] ELSE n : n \in notifications}

Take(seq, n) == SubSeq(seq, 1, IF Len(seq) < n THEN Len(seq) ELSE n)

DefaultLimit == 50

\* ORDER BY date DESC LIMIT limit: every list the query can return
getTransactions(userId, limit) ==
  {Take(s, limit) : s \in DescByDate({t \in transactions : t.userId = userId})}

\* no ORDER BY: the rows, as a set
getBudgets(userId, month, year) ==
  IF month # Absent /\ year # Absent
  THEN {b \in budgets : b.userId = userId /\ b.month = month /\ b.year = year}
  ELSE {b \in budgets : b.userId = userId}

RECURSIVE DescByCreatedAt(_)
\* ORDER BY created_at DESC; created_at is now() at the insert, so later ids first
DescByCreatedAt(rows) ==
  IF rows = {} THEN <<>>
  ELSE LET r == CHOOSE x \in rows : \A y \in rows : x.id >= y.id
       IN  <<r>> \o DescByCreatedAt(rows \ {r})

getGoals(userId) == DescByCreatedAt({g \in goals : g.userId = userId})

\* Variant: the list without its owner condition.
getNotificationsAll(userId) == DescByCreatedAt(notifications)

getNotifications(userId) ==
  DescByCreatedAt({n \in notifications : n.userId = userId})

RECURSIVE SumCents(_)
\* SUM(amount) of numeric(12,2) values is exact: the sum in hundredths
SumCents(rows) ==
  IF rows = {} THEN 0
  ELSE LET r == CHOOSE x \in rows : TRUE IN r.amount + SumCents(rows \ {r})

\* Variant: the aggregation without its type condition.
getSpendingAllTypes(userId, month, year) ==
  LET rows == {t \in transactions : /\ t.userId = userId
                                     /\ t.date >= startDate(year, month)
                                     /\ t.date <= endDate(year, month)}
  IN  {[category |-> c, total |-> SumCents({t \in rows : t.category = c})] :
         c \in {t.category : t \in rows}}

\* GROUP BY category, in no order: the result rows as a set
getSpendingByCategory(userId, month, year) ==
  LET rows == {t \in transactions : /\ t.userId = userId
                                     /\ t.type = "expense"
                                     /\ t.date >= startDate(year, month)
                                     /\ t.date <= endDate(year, month)}
  IN  {[category |-> c, total |-> SumCents({t \in rows : t.category = c})] :
         c \in {t.category : t \in rows}}

RECURSIVE AscByKey(_)
AscByKey(keys) ==
  IF keys = {} THEN <<>>
  ELSE LET k == CHOOSE x \in keys : \A y \in keys : x = y \/ KeyLess(x, y)
       IN  <<k>> \o AscByKey(keys \ {k})

\* GROUP BY and ORDER BY TO_CHAR(date, 'YYYY-MM'), the two SUM(CASE ...) columns
getMonthlyTrends(userId, months) ==
  LET endD   == now
      startD == setMonth(now, months)
      rows   == {t \in transactions : /\ t.userId = userId
                                       /\ t.date >= startD
                                       /\ t.date <= endD}
      keys   == AscByKey({TO_CHAR(t.date) : t \in rows})
  IN  [i \in 1..Len(keys) |->
         [month    |-> keys[i],
          income   |-> SumCents({t \in rows : TO_CHAR(t.date) = keys[i]
                                               /\ t.type = "income"}),
          expenses |-> SumCents({t \in rows : TO_CHAR(t.date) = keys[i]
                                               /\ t.type = "expense"})]]

\* ---------------------------------------------------------------------------
\* The budget-alert check (checkBudgetAlerts of routes.ts)
\* ---------------------------------------------------------------------------
AlertThreshold == 80

ExceededThreshold == 100

RECURSIVE reduceSum(_, _)
\* transactions.reduce((sum, t) => sum + parseFloat(t.amount), 0)
reduceSum(seq, sum) ==
  IF seq = <<>> THEN sum
  ELSE reduceSum(Tail(seq), FAdd(sum, parseFloat(Head(seq).amount)))

IsCategoryExpense(t, category) == t.category = category /\ t.type = "expense"

toLocaleString(x) == RoundDecimals(x, 3)

NoEval ==
  [ran |-> FALSE, threw |-> "none", budget |-> {}, spent |-> 0, totalSpent |-> FZero,
   ge80 |-> FALSE, ge100 |-> FALSE, insert |-> {}]

\* Variant: the first branch without its "percentage < 100" and no else.
AlertDataBoth(ge80, ge100, alert, exceeded) ==
  (IF ge80 THEN {alert} ELSE {}) \cup (IF ge100 THEN {exceeded} ELSE {})

\* if (percentage >= 80 && percentage < 100) ... else if (percentage >= 100) ...:
\* the rows handed to createNotification
AlertData(ge80, ge100, alert, exceeded) ==
  IF ge80 /\ ~ge100 THEN {alert}
  ELSE IF ge100 THEN {exceeded}
  ELSE {}

\* What the check does once it holds a budget row and the month's rows in the
\* order the database returned them.
AlertFor(budget, rows, userId, category, fault) ==
  LET categoryTransactions == SelectSeq(rows, LAMBDA t : IsCategoryExpense(t, category))
      totalSpent   == reduceSum(categoryTransactions, FZero)
      budgetAmount == parseFloat(budget.amount)
      \* x / 0 is Infinity for x > 0 and NaN for x = 0; NaN compares false
      byZero       == budgetAmount.m = <<>>
      percentage   == IF byZero THEN FZero
                      ELSE FMulS(FDiv(totalSpent, budgetAmount), 100)
      ge80  == IF byZero THEN totalSpent.m # <<>> ELSE FGeS(percentage, AlertThreshold)
      ge100 == IF byZero THEN totalSpent.m # <<>>
               ELSE FGeS(percentage, ExceededThreshold)
      data  == AlertData(
                 ge80, ge100,
                 [userId |-> userId,
                  title |-> <<"Budget Alert", category>>,
                  message |-> <<"spent", RoundDecimals(percentage, 1),
                                toLocaleString(totalSpent),
                                toLocaleString(budgetAmount)>>,
                  type |-> "warning"],
                 [userId |-> userId,
                  title |-> <<"Budget Exceeded", category>>,
                  message |-> <<"exceeded",
                                toLocaleString(FSub(totalSpent, budgetAmount))>>,
                  type |-> "warning"])
      failed == data # {} /\ fault = "createNotification"
  IN  [ran |-> TRUE,
       threw |-> IF failed THEN fault ELSE "none",
       budget |-> {budget},
       spent |-> SumCents({rows[i] : i \in {j \in 1..Len(rows) :
                                              IsCategoryExpense(rows[j], category)}}),
       totalSpent |-> totalSpent,
       ge80 |-> ge80, ge100 |-> ge100,
       insert |-> IF failed THEN {} ELSE data]

\* Every way one call can go: fault names the storage call that throws, if any;
\* the try/catch around the whole body swallows it.
checkBudgetAlerts(txs, userId, category, month, year, fault) ==
  IF fault = "getBudgetByCategory"
  THEN {[NoEval EXCEPT !.ran = TRUE, !.threw = fault]}
  ELSE LET found == getBudgetByCategory(userId, category, month, year)
       IN  IF found = {} THEN {[NoEval EXCEPT !.ran = TRUE]}
           ELSE IF fault = "getTransactionsByDateRange"
           THEN {[NoEval EXCEPT !.ran = TRUE, !.threw = fault, !.budget = {b}] :
                   b \in found}
           ELSE {AlertFor(b, rows, userId, category, fault) :
                   b \in found,
                   rows \in getTransactionsByDateRange(
                              txs, userId, startDate(year, month), endDate(year, month))}

\* ---------------------------------------------------------------------------
\* Request handlers (registerRoutes, setupAuth).  auth is the session's user id,
\* NoUser when req.isAuthenticated() is false; fault names the storage call that
\* throws during the request ("none": none does).
\* ---------------------------------------------------------------------------
\* data is the JSON the response carries, where a property speaks of it (<<>>
\* otherwise): the result of a read, the error of a registration
Response(op, auth, status, id, body, ev) ==
  [op |-> op, auth |-> auth, status |-> status, id |-> id, body |-> body, ev |-> ev,
   data |-> <<>>]

Reply(op, auth, status, body, data) ==
  /\ resp' = [Response(op, auth, status, 0, body, NoEval) EXCEPT !.data = data]
  /\ UNCHANGED <<db, now, requests>>

Reject(op, auth, status, id, body) ==
  /\ resp' = Response(op, auth, status, id, body, NoEval)
  /\ UNCHANGED <<db, now, requests>>

TransactionFields == {"amount", "description", "category", "type", "date"}

BudgetFields == {"category", "amount", "month", "year"}

GoalFields == {"title", "targetAmount"}

\* Variant: the check runs for every created transaction.
RunsCheckAlways(validatedData) == TRUE

\* if (validatedData.type === 'expense') await checkBudgetAlerts(...)
RunsCheck(validatedData) == validatedData.type = "expense"

\* Variant: the check without its try/catch, so the handler's catch answers 500.
StatusUncaught(ev) == IF ev.threw # "none" THEN 500 ELSE 201

\* checkBudgetAlerts catches what its storage calls throw and returns normally,
\* so the handler goes on to res.status(201)
StatusAfterCheck(ev) == 201

PostTransactions(auth, body, fault) ==
  LET op == "POST /api/transactions"
  IN  IF auth = NoUser THEN Reject(op, auth, 401, 0, body)
      ELSE IF ~insertTransactionSchema(body) THEN Reject(op, auth, 400, 0, body)
      ELSE IF fault = "createTransaction" THEN Reject(op, auth, 500, 0, body)
      ELSE LET validatedData == Parsed(body, TransactionFields)
               transaction   == createTransaction(validatedData, auth)
               txs           == transactions \cup {transaction}
           IN  /\ transactions' = txs
               /\ \E ev \in (IF RunsCheck(validatedData)
                             THEN checkBudgetAlerts(txs, auth, validatedData.category,
                                                    getMonth(now) + 1, getFullYear(now),
                                                    fault)
                             ELSE {NoEval}) :
                    /\ notifications' =
                         notifications \cup {createNotification(d) : d \in ev.insert}
                    /\ nextId' = [nextId EXCEPT
                                    !.transactions = @ + 1,
                                    !.notifications = @ + Cardinality(ev.insert)]
                    /\ resp' = Response(op, auth, StatusAfterCheck(ev),
                                        transaction.id, body, ev)
               /\ UNCHANGED <<users, budgets, goals, now, requests>>

\* Variant: an update of a transaction also adds the amount given to the
\* requester's goals.
PutTransactionsIdFundingGoals(auth, id, body, fault) ==
  LET op == "PUT /api/transactions/:id"
  IN  IF auth = NoUser THEN Reject(op, auth, 401, id, body)
      ELSE IF ~insertTransactionSchemaPartial(body) THEN Reject(op, auth, 400, id, body)
      ELSE IF fault = "updateTransaction" THEN Reject(op, auth, 500, id, body)
      ELSE IF \A t \in transactions : t.id # id THEN Reject(op, auth, 404, id, body)
      ELSE /\ transactions' = updateTransaction(id, Parsed(body, TransactionFields))
           /\ goals' = {IF g.userId = auth /\ "amount" \in DOMAIN body
                        THEN [g EXCEPT !.currentAmount = @ + body.amount]
                        ELSE g : g \in goals}
           /\ resp' = Response(op, auth, 200, id, body, NoEval)
           /\ UNCHANGED <<users, budgets, notifications, nextId, now, requests>>

PutTransactionsId(auth, id, body, fault) ==
  LET op == "PUT /api/transactions/:id"
  IN  IF auth = NoUser THEN Reject(op, auth, 401, id, body)
      ELSE IF ~insertTransactionSchemaPartial(body) THEN Reject(op, auth, 400, id, body)
      ELSE IF fault = "updateTransaction" THEN Reject(op, auth, 500, id, body)
      ELSE IF \A t \in transactions : t.id # id THEN Reject(op, auth, 404, id, body)
      ELSE /\ transactions' = updateTransaction(id, Parsed(body, TransactionFields))
           /\ resp' = Response(op, auth, 200, id, body, NoEval)
           /\ UNCHANGED <<users, budgets, goals, notifications, nextId, now, requests>>

\* Variant: the delete also removes the owner's notifications.
DeleteTransactionsIdCompensating(auth, id, fault) ==
  LET op == "DELETE /api/transactions/:id"
      body == <<>>
  IN  IF auth = NoUser THEN Reject(op, auth, 401, id, body)
      ELSE IF fault = "deleteTransaction" THEN Reject(op, auth, 500, id, body)
      ELSE IF \A t \in transactions : t.id # id THEN Reject(op, auth, 404, id, body)
      ELSE /\ transactions' = deleteTransaction(id)
           /\ notifications' =
                {n \in notifications :
                   \A t \in transactions : t.id = id => n.userId # t.userId}
           /\ resp' = Response(op, auth, 204, id, body, NoEval)
           /\ UNCHANGED <<users, budgets, goals, nextId, now, requests>>

DeleteTransactionsId(auth, id, fault) ==
  LET op == "DELETE /api/transactions/:id"
      body == <<>>
  IN  IF auth = NoUser THEN Reject(op, auth, 401, id, body)
      ELSE IF fault = "deleteTransaction" THEN Reject(op, auth, 500, id, body)
      ELSE IF \A t \in transactions : t.id # id THEN Reject(op, auth, 404, id, body)
      ELSE /\ transactions' = deleteTransaction(id)
           /\ resp' = Response(op, auth, 204, id, body, NoEval)
           /\ UNCHANGED <<users, budgets, goals, notifications, nextId, now, requests>>

\* Variant: the row is stored before the body is parsed.
PostBudgetsStoreFirst(auth, body, fault) ==
  LET op == "POST /api/budgets"
  IN  IF auth = NoUser THEN Reject(op, auth, 401, 0, body)
      ELSE IF fault = "createBudget" THEN Reject(op, auth, 500, 0, body)
      ELSE /\ budgets' = budgets \cup
                 {[id |-> nextId.budgets, userId |-> auth,
                   category |-> IF "category" \in DOMAIN body THEN body.category
                                ELSE "Food",
                   amount |-> IF "amount" \in DOMAIN body THEN body.amount ELSE 0,
                   month |-> body.month, year |-> body.year]}
           /\ nextId' = [nextId EXCEPT !.budgets = @ + 1]
           /\ resp' = Response(op, auth,
                               IF insertBudgetSchema(body) THEN 201 ELSE 400,
                               nextId.budgets, body, NoEval)
           /\ UNCHANGED <<users, transactions, goals, notifications, now, requests>>

PostBudgets(auth, body, fault) ==
  LET op == "POST /api/budgets"
  IN  IF auth = NoUser THEN Reject(op, auth, 401, 0, body)
      ELSE IF ~insertBudgetSchema(body) THEN Reject(op, auth, 400, 0, body)
      ELSE IF fault = "createBudget" THEN Reject(op, auth, 500, 0, body)
      ELSE /\ budgets' = budgets \cup {createBudget(Parsed(body, BudgetFields), auth)}
           /\ nextId' = [nextId EXCEPT !.budgets = @ + 1]
           /\ resp' = Response(op, auth, 201, nextId.budgets, body, NoEval)
           /\ UNCHANGED <<users, transactions, goals, notifications, now, requests>>

PutBudgetsId(auth, id, body, fault) ==
  LET op == "PUT /api/budgets/:id"
  IN  IF auth = NoUser THEN Reject(op, auth, 401, id, body)
      ELSE IF ~insertBudgetSchemaPartial(body) THEN Reject(op, auth, 400, id, body)
      ELSE IF fault = "updateBudget" THEN Reject(op, auth, 500, id, body)
      ELSE IF \A b \in budgets : b.id # id THEN Reject(op, auth, 404, id, body)
      ELSE /\ budgets' = updateBudget(id, Parsed(body, BudgetFields))
           /\ resp' = Response(op, auth, 200, id, body, NoEval)
           /\ UNCHANGED <<users, transactions, goals, notifications, nextId, now, requests>>

\* Variant: the delete without the session check.
DeleteBudgetsIdOpen(auth, id, fault) ==
  LET op == "DELETE /api/budgets/:id"
      body == <<>>
  IN  IF fault = "deleteBudget" THEN Reject(op, auth, 500, id, body)
      ELSE IF \A b \in budgets : b.id # id THEN Reject(op, auth, 404, id, body)
      ELSE /\ budgets' = deleteBudget(id)
           /\ resp' = Response(op, auth, 204, id, body, NoEval)
           /\ UNCHANGED <<users, transactions, goals, notifications, nextId, now, requests>>

DeleteBudgetsId(auth, id, fault) ==
  LET op == "DELETE /api/budgets/:id"
      body == <<>>
  IN  IF auth = NoUser THEN Reject(op, auth, 401, id, body)
      ELSE IF fault = "deleteBudget" THEN Reject(op, auth, 500, id, body)
      ELSE IF \A b \in budgets : b.id # id THEN Reject(op, auth, 404, id, body)
      ELSE /\ budgets' = deleteBudget(id)
           /\ resp' = Response(op, auth, 204, id, body, NoEval)
           /\ UNCHANGED <<users, transactions, goals, notifications, nextId, now, requests>>

PostGoals(auth, body, fault) ==
  LET op == "POST /api/goals"
  IN  IF auth = NoUser THEN Reject(op, auth, 401, 0, body)
      ELSE IF ~insertGoalSchema(body) THEN Reject(op, auth, 400, 0, body)
      ELSE IF fault = "createGoal" THEN Reject(op, auth, 500, 0, body)
      ELSE /\ goals' = goals \cup {createGoal(Parsed(body, GoalFields), auth)}
           /\ nextId' = [nextId EXCEPT !.goals = @ + 1]
           /\ resp' = Response(op, auth, 201, nextId.goals, body, NoEval)
           /\ UNCHANGED <<users, transactions, budgets, notifications, now, requests>>

PutGoalsId(auth, id, body, fault) ==
  LET op == "PUT /api/goals/:id"
  IN  IF auth = NoUser THEN Reject(op, auth, 401, id, body)
      ELSE IF ~insertGoalSchemaPartial(body) THEN Reject(op, auth, 400, id, body)
      ELSE IF fault = "updateGoal" THEN Reject(op, auth, 500, id, body)
      ELSE IF \A g \in goals : g.id # id THEN Reject(op, auth, 404, id, body)
      ELSE /\ goals' = updateGoal(id, Parsed(body, GoalFields))
           /\ resp' = Response(op, auth, 200, id, body, NoEval)
           /\ UNCHANGED <<users, transactions, budgets, notifications, nextId, now, requests>>

\* Variant: the delete answers without looking at the number of rows deleted.
DeleteGoalsIdNoCheck(auth, id, fault) ==
  LET op == "DELETE /api/goals/:id"
      body == <<>>
  IN  IF auth = NoUser THEN Reject(op, auth, 401, id, body)
      ELSE IF fault = "deleteGoal" THEN Reject(op, auth, 500, id, body)
      ELSE /\ goals' = deleteGoal(id)
           /\ resp' = Response(op, auth, 204, id, body, NoEval)
           /\ UNCHANGED <<users, transactions, budgets, notifications, nextId, now, requests>>

DeleteGoalsId(auth, id, fault) ==
  LET op == "DELETE /api/goals/:id"
      body == <<>>
  IN  IF auth = NoUser THEN Reject(op, auth, 401, id, body)
      ELSE IF fault = "deleteGoal" THEN Reject(op, auth, 500, id, body)
      ELSE IF \A g \in goals : g.id # id THEN Reject(op, auth, 404, id, body)
      ELSE /\ goals' = deleteGoal(id)
           /\ resp' = Response(op, auth, 204, id, body, NoEval)
           /\ UNCHANGED <<users, transactions, budgets, notifications, nextId, now, requests>>

PutNotificationsIdRead(auth, id, fault) ==
  LET op == "PUT /api/notifications/:id/read"
      body == <<>>
  IN  IF auth = NoUser THEN Reject(op, auth, 401, id, body)
      ELSE IF fault = "markNotificationAsRead" THEN Reject(op, auth, 500, id, body)
      ELSE IF \A n \in notifications : n.id # id THEN Reject(op, auth, 404, id, body)
      ELSE /\ notifications' = markNotificationAsRead(id)
           /\ resp' = Response(op, auth, 204, id, body, NoEval)
           /\ UNCHANGED <<users, transactions, budgets, goals, nextId, now, requests>>

UserFields == {"username", "password", "email", "firstName", "lastName"}

\* if (!username || !password || !email || !firstName || !lastName)
AllFieldsGiven(body) == \A f \in UserFields : f \in DOMAIN body /\ body[f] # ""

\* the unique constraints users_username_unique and users_email_unique a new row
\* would violate; the database reports one of them
UniqueViolations(body) ==
  {c \in {"username", "email"} : \E u \in users : u[c] = body[c]}

\* Variant: createUser's fallback message for every constraint.
ViolationMessageGeneric(c) == "Unique constraint violation."

\* createUser's message for the constraint the database reports
ViolationMessage(c) ==
  IF c = "username" THEN "Username already exists." ELSE "Email already exists."

PostRegister(body, fault) ==
  LET op == "POST /api/register"
  IN  IF ~AllFieldsGiven(body)
      THEN Reply(op, NoUser, 400, body, [error |-> "All fields are required."])
      ELSE IF fault = "createUser"
      THEN Reply(op, NoUser, 500, body, [error |-> "Internal server error."])
      ELSE IF UniqueViolations(body) # {}
      THEN \E c \in UniqueViolations(body) :
             LET message == ViolationMessage(c)
             IN  IF message \in {"Username already exists.", "Email already exists."}
                 THEN Reply(op, NoUser, 400, body, [error |-> message])
                 ELSE Reply(op, NoUser, 500, body, [error |-> "Internal server error."])
      ELSE /\ users' = users \cup
                 {[id |-> nextId.users, username |-> body.username, email |-> body.email,
                   firstName |-> body.firstName, lastName |-> body.lastName]}
           /\ nextId' = [nextId EXCEPT !.users = @ + 1]
           /\ resp' = Response(op, nextId.users, 201, nextId.users, body, NoEval)
           /\ UNCHANGED <<transactions, budgets, goals, notifications, now, requests>>

\* ---------------------------------------------------------------------------
\* Read handlers: they answer from storage and change no table.
\* ---------------------------------------------------------------------------
GetTransactions(auth, limit, fault) ==
  LET op == "GET /api/transactions"
      query == [limit |-> limit]
  IN  IF auth = NoUser THEN Reply(op, auth, 401, query, <<>>)
      ELSE IF fault = "getTransactions" THEN Reply(op, auth, 500, query, <<>>)
      ELSE \E data \in getTransactions(auth, IF limit = Absent THEN DefaultLimit
                                                ELSE limit) :
             Reply(op, auth, 200, query, data)

GetBudgets(auth, month, year, fault) ==
  LET op == "GET /api/budgets"
      query == [month |-> month, year |-> year]
  IN  IF auth = NoUser THEN Reply(op, auth, 401, query, {})
      ELSE IF fault = "getBudgets" THEN Reply(op, auth, 500, query, {})
      ELSE Reply(op, auth, 200, query, getBudgets(auth, month, year))

GetGoals(auth, fault) ==
  LET op == "GET /api/goals"
  IN  IF auth = NoUser THEN Reply(op, auth, 401, <<>>, <<>>)
      ELSE IF fault = "getGoals" THEN Reply(op, auth, 500, <<>>, <<>>)
      ELSE Reply(op, auth, 200, <<>>, getGoals(auth))

GetNotifications(auth, fault) ==
  LET op == "GET /api/notifications"
  IN  IF auth = NoUser THEN Reply(op, auth, 401, <<>>, <<>>)
      ELSE IF fault = "getNotifications" THEN Reply(op, auth, 500, <<>>, <<>>)
      ELSE Reply(op, auth, 200, <<>>, getNotifications(auth))

\* parseInt(req.query.month) || new Date().getMonth() + 1, and the year likewise
GetAnalyticsSpending(auth, month, year, fault) ==
  LET op == "GET /api/analytics/spending"
      query == [month |-> month, year |-> year]
      m == IF month = Absent THEN getMonth(now) + 1 ELSE month
      y == IF year = Absent THEN getFullYear(now) ELSE year
  IN  IF auth = NoUser THEN Reply(op, auth, 401, query, {})
      ELSE IF fault = "getSpendingByCategory" THEN Reply(op, auth, 500, query, {})
      ELSE Reply(op, auth, 200, query, getSpendingByCategory(auth, m, y))

DefaultMonths == 6

\* parseInt(req.query.months) || 6
GetAnalyticsTrends(auth, months, fault) ==
  LET op == "GET /api/analytics/trends"
      query == [months |-> months]
  IN  IF auth = NoUser THEN Reply(op, auth, 401, query, <<>>)
      ELSE IF fault = "getMonthlyTrends" THEN Reply(op, auth, 500, query, <<>>)
      ELSE Reply(op, auth, 200, query,
                 getMonthlyTrends(auth, IF months = Absent THEN DefaultMonths
                                        ELSE months))

\* the wall clock reaches the next month
ClockTick ==
  /\ now' = now + TicksPerMonth
  /\ UNCHANGED <<db, resp, requests>>

\* ---------------------------------------------------------------------------
\* Specification Spec: every handler, from the empty database.
\* ---------------------------------------------------------------------------
MaxUsers == 2

MaxTransactions == 1

MaxBudgets == 1

MaxGoals == 1

MaxMonths == 1

StartOfClock == Instant(2026, 11, 1)

ThisMonth == getMonth(StartOfClock) + 1

ThisYear == getFullYear(StartOfClock)

LastMonthDate == StartOfClock - TicksPerMonth

Sessions == {NoUser} \cup {u.id : u \in users}

RegisterBodies ==
  {[username |-> "alice", password |-> "pw", email |-> "alice@x", firstName |-> "A",
    lastName |-> "L"],
   [username |-> "bob", password |-> "pw", email |-> "bob@x", firstName |-> "B",
    lastName |-> "M"],
   [username |-> "bob", password |-> "pw", email |-> "alice@x", firstName |-> "B",
    lastName |-> "M"],
   [username |-> "carol", password |-> "", email |-> "carol@x", firstName |-> "C",
    lastName |-> "N"],
   [username |-> "carol", password |-> "pw", firstName |-> "C", lastName |-> "N"]}

TransactionBodies ==
  {[amount |-> 9, description |-> "lunch", category |-> "Food", type |-> "expense",
    date |-> StartOfClock],
   [amount |-> 9, description |-> "pay", category |-> "Food", type |-> "income",
    date |-> StartOfClock],
   [amount |-> 9, description |-> "lunch", category |-> "Bogus", type |-> "expense",
    date |-> StartOfClock],
   [description |-> "lunch", category |-> "Food", type |-> "expense",
    date |-> StartOfClock],
   [amount |-> 9, description |-> "pay", category |-> "Food", type |-> "income",
    date |-> StartOfClock, id |-> 7, userId |-> 2]}

TransactionPatches ==
  {[amount |-> 1], [type |-> "transfer"]}

BudgetBodies ==
  {[category |-> "Food", amount |-> 10, month |-> ThisMonth, year |-> ThisYear],
   [category |-> "Bogus", amount |-> 10, month |-> ThisMonth, year |-> ThisYear],
   [category |-> "Food", month |-> ThisMonth, year |-> ThisYear],
   [category |-> "Food", amount |-> 10, month |-> ThisMonth, year |-> ThisYear,
    id |-> 7, userId |-> 2]}

BudgetPatches == {[amount |-> 20], [category |-> "Bogus"]}

GoalBodies ==
  {[title |-> "Trip", targetAmount |-> 500], [title |-> "Trip"],
   [title |-> "Trip", targetAmount |-> 500, id |-> 7, userId |-> 2]}

GoalPatches == {[targetAmount |-> 600], [title |-> "#7"]}

NoResponse == Response("none", NoUser, 0, 0, <<>>, NoEval)

Init ==
  /\ users = {}
  /\ transactions = {}
  /\ budgets = {}
  /\ goals = {}
  /\ notifications = {}
  /\ nextId = [users |-> 1, transactions |-> 1, budgets |-> 1, goals |-> 1,
               notifications |-> 1]
  /\ now = StartOfClock
  /\ resp = NoResponse
  /\ requests = {}

Next ==
  \/ \E body \in RegisterBodies, fault \in {"none", "createUser"} :
       nextId.users <= MaxUsers /\ PostRegister(body, fault)
  \/ \E auth \in Sessions, body \in TransactionBodies,
        fault \in {"none", "createTransaction", "getBudgetByCategory",
                   "getTransactionsByDateRange", "createNotification"} :
       nextId.transactions <= MaxTransactions /\ PostTransactions(auth, body, fault)
  \/ \E auth \in Sessions, id \in 1..MaxTransactions, body \in TransactionPatches,
        fault \in {"none", "updateTransaction"} :
       PutTransactionsId(auth, id, body, fault)
  \/ \E auth \in Sessions, id \in 1..MaxTransactions,
        fault \in {"none", "deleteTransaction"} :
       DeleteTransactionsId(auth, id, fault)
  \/ \E auth \in Sessions, body \in BudgetBodies, fault \in {"none", "createBudget"} :
       nextId.budgets <= MaxBudgets /\ PostBudgets(auth, body, fault)
  \/ \E auth \in Sessions, id \in 1..MaxBudgets, body \in BudgetPatches,
        fault \in {"none", "updateBudget"} :
       PutBudgetsId(auth, id, body, fault)
  \/ \E auth \in Sessions, id \in 1..MaxBudgets, fault \in {"none", "deleteBudget"} :
       DeleteBudgetsId(auth, id, fault)
  \/ \E auth \in Sessions, body \in GoalBodies, fault \in {"none", "createGoal"} :
       nextId.goals <= MaxGoals /\ PostGoals(auth, body, fault)
  \/ \E auth \in Sessions, id \in 1..MaxGoals, body \in GoalPatches,
        fault \in {"none", "updateGoal"} :
       PutGoalsId(auth, id, body, fault)
  \/ \E auth \in Sessions, id \in 1..MaxGoals, fault \in {"none", "deleteGoal"} :
       DeleteGoalsId(auth, id, fault)
  \/ \E auth \in Sessions, id \in 1..MaxTransactions,
        fault \in {"none", "markNotificationAsRead"} :
       PutNotificationsIdRead(auth, id, fault)
  \/ \E auth \in Sessions : GetTransactions(auth, Absent, "none")
  \/ \E auth \in Sessions : GetBudgets(auth, ThisMonth, ThisYear, "none")
  \/ \E auth \in Sessions : GetGoals(auth, "none")
  \/ \E auth \in Sessions : GetNotifications(auth, "none")
  \/ \E auth \in Sessions : GetAnalyticsSpending(auth, Absent, Absent, "none")
  \/ \E auth \in Sessions : GetAnalyticsTrends(auth, Absent, "none")
  \/ now < StartOfClock + MaxMonths * TicksPerMonth /\ ClockTick

Spec == Init /\ [][Next]_vars

\* ---------------------------------------------------------------------------
\* Specification SpecAlert: expense creation against one Food budget of the
\* current month, two users registered, with the amounts at which the check's
\* thresholds lie.
\* ---------------------------------------------------------------------------
MaxAlertTransactions == 2

AlertBudgetAmounts == {10, 565, 100000}

AlertAmounts == {1, 9, 452, 20000, 79990, 85000}

AlertBodies ==
  {[amount |-> a, description |-> "x", category |-> "Food", type |-> "expense",
    date |-> d] : a \in AlertAmounts, d \in {StartOfClock, LastMonthDate}}
  \cup {[amount |-> a, description |-> "x", category |-> "Bills", type |-> "expense",
         date |-> StartOfClock] : a \in {9, 85000}}
  \cup {[amount |-> 85000, description |-> "pay", category |-> "Food",
         type |-> "income", date |-> StartOfClock]}

AlertFaults ==
  {"none", "createTransaction", "getBudgetByCategory", "getTransactionsByDateRange",
   "createNotification"}

InitAlert ==
  /\ users = {[id |-> 1, username |-> "alice", email |-> "alice@x", firstName |-> "A",
               lastName |-> "L"],
              [id |-> 2, username |-> "bob", email |-> "bob@x", firstName |-> "B",
               lastName |-> "M"]}
  /\ transactions = {}
  /\ \E a \in AlertBudgetAmounts :
       budgets = {[id |-> 1, userId |-> 1, category |-> "Food", amount |-> a,
                   month |-> ThisMonth, year |-> ThisYear]}
  /\ goals = {}
  /\ notifications = {}
  /\ nextId = [users |-> 3, transactions |-> 1, budgets |-> 2, goals |-> 1,
               notifications |-> 1]
  /\ now = StartOfClock
  /\ resp = NoResponse
  /\ requests = {}

NextAlert ==
  \E body \in AlertBodies, fault \in AlertFaults :
    nextId.transactions <= MaxAlertTransactions /\ PostTransactions(1, body, fault)

SpecAlert == InitAlert /\ [][NextAlert]_vars

\* ---------------------------------------------------------------------------
\* Specification SpecRead: the read endpoints over a transactions table drawn
\* from a pool of rows of two users, around the month boundaries.
\* ---------------------------------------------------------------------------
TransactionPool ==
  {[id |-> 1, userId |-> 1, amount |-> 300, description |-> "a", category |-> "Food",
    type |-> "expense", date |-> StartOfClock],
   [id |-> 2, userId |-> 1, amount |-> 125, description |-> "b", category |-> "Food",
    type |-> "expense", date |-> Instant(ThisYear, ThisMonth, 0)],
   [id |-> 3, userId |-> 1, amount |-> 1000, description |-> "c", category |-> "Bills",
    type |-> "income", date |-> StartOfClock],
   [id |-> 4, userId |-> 1, amount |-> 70, description |-> "d", category |-> "Bills",
    type |-> "expense", date |-> LastMonthDate],
   [id |-> 5, userId |-> 2, amount |-> 45, description |-> "e", category |-> "Food",
    type |-> "expense", date |-> StartOfClock],
   [id |-> 6, userId |-> 1, amount |-> 8, description |-> "f", category |-> "Food",
    type |-> "expense", date |-> Instant(ThisYear, ThisMonth, TicksPerMonth - 1)],
   [id |-> 7, userId |-> 1, amount |-> 60, description |-> "g", category |-> "Food",
    type |-> "income", date |-> Instant(ThisYear, ThisMonth - 5, TicksPerMonth - 2)]}

PeriodQueries ==
  {[month |-> Absent, year |-> Absent], [month |-> ThisMonth, year |-> ThisYear],
   [month |-> ThisMonth - 1, year |-> ThisYear]}

InitRead ==
  /\ users = {[id |-> 1, username |-> "alice", email |-> "alice@x", firstName |-> "A",
               lastName |-> "L"],
              [id |-> 2, username |-> "bob", email |-> "bob@x", firstName |-> "B",
               lastName |-> "M"]}
  /\ transactions \in SUBSET TransactionPool
  /\ budgets = {}
  /\ goals = {}
  /\ notifications = {}
  /\ nextId = [users |-> 3, transactions |-> Cardinality(TransactionPool) + 1,
               budgets |-> 1, goals |-> 1, notifications |-> 1]
  /\ now = StartOfClock
  /\ resp = NoResponse
  /\ requests = {}

NextRead ==
  \/ \E auth \in Sessions, limit \in {Absent, 1}, fault \in {"none", "getTransactions"} :
       GetTransactions(auth, limit, fault)
  \/ \E auth \in Sessions, q \in PeriodQueries,
        fault \in {"none", "getSpendingByCategory"} :
       GetAnalyticsSpending(auth, q.month, q.year, fault)
  \/ \E auth \in Sessions, months \in {Absent, 1},
        fault \in {"none", "getMonthlyTrends"} :
       GetAnalyticsTrends(auth, months, fault)
  \/ now < StartOfClock + MaxMonths * TicksPerMonth /\ ClockTick

SpecRead == InitRead /\ [][NextRead]_vars

\* ---------------------------------------------------------------------------
\* Specification SpecBudget: the budget endpoints of two registered users.
\* ---------------------------------------------------------------------------
MaxBudgetRows == 2

BudgetRowBodies ==
  {[category |-> "Food", amount |-> 10, month |-> ThisMonth, year |-> ThisYear],
   [category |-> "Food", amount |-> 20, month |-> ThisMonth, year |-> ThisYear],
   [category |-> "Bills", amount |-> 10, month |-> ThisMonth, year |-> ThisYear]}

BudgetRowPatches == {[amount |-> 20], [category |-> "Bills"], [month |-> ThisMonth - 1]}

InitRegistered ==
  /\ users = {[id |-> 1, username |-> "alice", email |-> "alice@x", firstName |-> "A",
               lastName |-> "L"],
              [id |-> 2, username |-> "bob", email |-> "bob@x", firstName |-> "B",
               lastName |-> "M"]}
  /\ transactions = {}
  /\ budgets = {}
  /\ goals = {}
  /\ notifications = {}
  /\ nextId = [users |-> 3, transactions |-> 1, budgets |-> 1, goals |-> 1,
               notifications |-> 1]
  /\ now = StartOfClock
  /\ resp = NoResponse
  /\ requests = {}

NextBudget ==
  \/ \E auth \in Sessions, body \in BudgetRowBodies :
       nextId.budgets <= MaxBudgetRows /\ PostBudgets(auth, body, "none")
  \/ \E auth \in Sessions, id \in 1..MaxBudgetRows, body \in BudgetRowPatches :
       PutBudgetsId(auth, id, body, "none")
  \/ \E auth \in Sessions, id \in 1..MaxBudgetRows : DeleteBudgetsId(auth, id, "none")
  \/ \E auth \in Sessions, q \in PeriodQueries : GetBudgets(auth, q.month, q.year, "none")

SpecBudget == InitRegistered /\ [][NextBudget]_vars

\* ---------------------------------------------------------------------------
\* Specification SpecIsolation: every endpoint, the storage working, for two
\* registered users.
\* ---------------------------------------------------------------------------
NextIsolation ==
  \/ \E auth \in Sessions, body \in TransactionBodies :
       nextId.transactions <= MaxTransactions /\ PostTransactions(auth, body, "none")
  \/ \E auth \in Sessions, id \in 1..MaxTransactions, body \in TransactionPatches :
       PutTransactionsId(auth, id, body, "none")
  \/ \E auth \in Sessions, id \in 1..MaxTransactions :
       DeleteTransactionsId(auth, id, "none")
  \/ \E auth \in Sessions, body \in BudgetBodies :
       nextId.budgets <= MaxBudgets /\ PostBudgets(auth, body, "none")
  \/ \E auth \in Sessions, id \in 1..MaxBudgets, body \in BudgetPatches :
       PutBudgetsId(auth, id, body, "none")
  \/ \E auth \in Sessions, id \in 1..MaxBudgets : DeleteBudgetsId(auth, id, "none")
  \/ \E auth \in Sessions, body \in GoalBodies :
       nextId.goals <= MaxGoals /\ PostGoals(auth, body, "none")
  \/ \E auth \in Sessions, id \in 1..MaxGoals, body \in GoalPatches :
       PutGoalsId(auth, id, body, "none")
  \/ \E auth \in Sessions, id \in 1..MaxGoals : DeleteGoalsId(auth, id, "none")
  \/ \E auth \in Sessions, id \in 1..MaxTransactions :
       PutNotificationsIdRead(auth, id, "none")
  \/ \E auth \in Sessions : GetTransactions(auth, Absent, "none")
  \/ \E auth \in Sessions, q \in PeriodQueries : GetBudgets(auth, q.month, q.year, "none")
  \/ \E auth \in Sessions : GetGoals(auth, "none")
  \/ \E auth \in Sessions : GetNotifications(auth, "none")
  \/ \E auth \in Sessions : GetAnalyticsSpending(auth, Absent, Absent, "none")
  \/ \E auth \in Sessions : GetAnalyticsTrends(auth, Absent, "none")

SpecIsolation == InitRegistered /\ [][NextIsolation]_vars

\* ---------------------------------------------------------------------------
\* POST /api/transactions await by await.  A request in flight stands at the
\* storage call it awaits (pc); the calls of different requests interleave.
\* ---------------------------------------------------------------------------
\* the requests in flight but q, and q with its locals changed
Resume(q, pc, transaction, budget, ev) ==
  (requests \ {q}) \cup {[q EXCEPT !.pc = pc, !.transaction = transaction,
                                    !.budget = budget, !.ev = ev]}

\* an authenticated request with a valid body arrives: parse, then the call of
\* storage.createTransaction
Accept(r, auth, body, fault) ==
  /\ \A q \in requests : q.r # r
  /\ auth # NoUser
  /\ insertTransactionSchema(body)
  /\ requests' = requests \cup
       {[r |-> r, auth |-> auth, body |-> body, fault |-> fault,
         pc |-> "createTransaction", transaction |-> <<>>, budget |-> {},
         ev |-> NoEval]}
  /\ UNCHANGED <<db, now, resp>>

\* Variant: the insert waits while another request of the same user and category
\* is between its insert and its response.
StoreTransactionLocked(q) ==
  /\ q.pc = "createTransaction"
  /\ \A o \in requests :
       (o.auth = q.auth /\ o.body.category = q.body.category)
         => o.pc = "createTransaction"
  /\ IF q.fault = "createTransaction"
     THEN /\ resp' = Response("POST /api/transactions", q.auth, 500, 0, q.body, NoEval)
          /\ requests' = requests \ {q}
          /\ UNCHANGED <<db, now>>
     ELSE LET validatedData == Parsed(q.body, TransactionFields)
              transaction   == createTransaction(validatedData, q.auth)
          IN  /\ transactions' = transactions \cup {transaction}
              /\ nextId' = [nextId EXCEPT !.transactions = @ + 1]
              /\ requests' =
                   Resume(q, IF RunsCheck(validatedData) THEN "getBudgetByCategory"
                             ELSE "respond",
                          transaction, {}, NoEval)
              /\ UNCHANGED <<users, budgets, goals, notifications, now, resp>>

\* await storage.createTransaction(...) completes, or throws into the handler's
\* catch
StoreTransaction(q) ==
  LET op == "POST /api/transactions"
  IN  /\ q.pc = "createTransaction"
      /\ IF q.fault = "createTransaction"
         THEN /\ resp' = Response(op, q.auth, 500, 0, q.body, NoEval)
              /\ requests' = requests \ {q}
              /\ UNCHANGED <<db, now>>
         ELSE LET validatedData == Parsed(q.body, TransactionFields)
                  transaction   == createTransaction(validatedData, q.auth)
              IN  /\ transactions' = transactions \cup {transaction}
                  /\ nextId' = [nextId EXCEPT !.transactions = @ + 1]
                  /\ requests' =
                       Resume(q, IF RunsCheck(validatedData) THEN "getBudgetByCategory"
                                 ELSE "respond",
                              transaction, {}, NoEval)
                  /\ UNCHANGED <<users, budgets, goals, notifications, now, resp>>

\* await storage.getBudgetByCategory(...) completes or throws; if (!budget) return
LookupBudget(q) ==
  LET found == getBudgetByCategory(q.auth, q.body.category, getMonth(now) + 1,
                                   getFullYear(now))
  IN  /\ q.pc = "getBudgetByCategory"
      /\ IF q.fault = "getBudgetByCategory"
         THEN requests' = Resume(q, "respond", q.transaction, {},
                                 [NoEval EXCEPT !.ran = TRUE, !.threw = q.fault])
         ELSE IF found = {}
         THEN requests' = Resume(q, "respond", q.transaction, {},
                                 [NoEval EXCEPT !.ran = TRUE])
         ELSE \E b \in found :
                requests' = Resume(q, "getTransactionsByDateRange", q.transaction, {b},
                                   [NoEval EXCEPT !.ran = TRUE, !.budget = {b}])
      /\ UNCHANGED <<db, now, resp>>

\* await storage.getTransactionsByDateRange(...) completes or throws; the sum,
\* the percentage and the branch taken
ReadMonth(q) ==
  /\ q.pc = "getTransactionsByDateRange"
  /\ IF q.fault = "getTransactionsByDateRange"
     THEN requests' = Resume(q, "respond", q.transaction, q.budget,
                             [q.ev EXCEPT !.threw = q.fault])
     ELSE \E b \in q.budget,
             rows \in getTransactionsByDateRange(
                        transactions, q.auth,
                        startDate(getFullYear(now), getMonth(now) + 1),
                        endDate(getFullYear(now), getMonth(now) + 1)) :
            \E ev \in {AlertFor(b, rows, q.auth, q.body.category, q.fault)} :
              requests' = Resume(q, IF ev.insert # {} THEN "createNotification"
                                    ELSE "respond",
                                 q.transaction, q.budget, ev)
  /\ UNCHANGED <<db, now, resp>>

\* await storage.createNotification(...) completes
InsertNotification(q) ==
  /\ q.pc = "createNotification"
  /\ notifications' = notifications \cup {createNotification(d) : d \in q.ev.insert}
  /\ nextId' = [nextId EXCEPT !.notifications = @ + Cardinality(q.ev.insert)]
  /\ requests' = Resume(q, "respond", q.transaction, q.budget, q.ev)
  /\ UNCHANGED <<users, transactions, budgets, goals, now, resp>>

\* Variant: the budget check is started but not awaited, so the response can be
\* sent while the notification insert is still pending.
RespondUnawaited(q) ==
  /\ q.pc \in {"createNotification", "respond"}
  /\ resp' = Response("POST /api/transactions", q.auth, StatusAfterCheck(q.ev),
                      q.transaction.id, q.body, q.ev)
  /\ requests' = requests \ {q}
  /\ UNCHANGED <<db, now>>

\* res.status(201).json(transaction)
Respond(q) ==
  /\ q.pc = "respond"
  /\ resp' = Response("POST /api/transactions", q.auth, StatusAfterCheck(q.ev),
                      q.transaction.id, q.body, q.ev)
  /\ requests' = requests \ {q}
  /\ UNCHANGED <<db, now>>

\* ---------------------------------------------------------------------------
\* Specification SpecSteps: concurrent transaction creations of two users, one
\* of them with a Food budget of the current month.
\* ---------------------------------------------------------------------------
MaxRequests == 2

MaxStepTransactions == 2

StepBodies ==
  {[amount |-> 9, description |-> "x", category |-> "Food", type |-> "expense",
    date |-> StartOfClock],
   [amount |-> 1, description |-> "y", category |-> "Food", type |-> "expense",
    date |-> StartOfClock],
   [amount |-> 9, description |-> "pay", category |-> "Food", type |-> "income",
    date |-> StartOfClock]}

StepFaults == {"none", "createTransaction"}

\* the requests accepted so far
Accepted == nextId.transactions - 1 + Cardinality({q \in requests :
                                                      q.pc = "createTransaction"})

InitSteps ==
  /\ users = {[id |-> 1, username |-> "alice", email |-> "alice@x", firstName |-> "A",
               lastName |-> "L"],
              [id |-> 2, username |-> "bob", email |-> "bob@x", firstName |-> "B",
               lastName |-> "M"]}
  /\ transactions = {}
  /\ budgets = {[id |-> 1, userId |-> 1, category |-> "Food", amount |-> 10,
                 month |-> ThisMonth, year |-> ThisYear]}
  /\ goals = {}
  /\ notifications = {}
  /\ nextId = [users |-> 3, transactions |-> 1, budgets |-> 2, goals |-> 1,
               notifications |-> 1]
  /\ now = StartOfClock
  /\ resp = NoResponse
  /\ requests = {}

NextSteps ==
  \/ \E r \in 1..MaxRequests, auth \in Sessions, body \in StepBodies,
        fault \in StepFaults :
       Accepted < MaxStepTransactions /\ Accept(r, auth, body, fault)
  \/ \E q \in requests : StoreTransaction(q)
  \/ \E q \in requests : LookupBudget(q)
  \/ \E q \in requests : ReadMonth(q)
  \/ \E q \in requests : InsertNotification(q)
  \/ \E q \in requests : Respond(q)

SpecSteps == InitSteps /\ [][NextSteps]_vars

\* ---------------------------------------------------------------------------
\* Specification SpecEvaluation: two registered users create budgets, a budget
\* of 0.00 among them, and expenses against them.
\* ---------------------------------------------------------------------------
EvaluationBudgetBodies ==
  {[category |-> "Food", amount |-> 0, month |-> ThisMonth, year |-> ThisYear],
   [category |-> "Food", amount |-> 10, month |-> ThisMonth, year |-> ThisYear]}

EvaluationBodies ==
  {[amount |-> a, description |-> "x", category |-> "Food", type |-> "expense",
    date |-> StartOfClock] : a \in {0, 1, 9}}

NextEvaluation ==
  \/ \E auth \in Sessions, body \in EvaluationBudgetBodies :
       nextId.budgets <= MaxBudgetRows /\ PostBudgets(auth, body, "none")
  \/ \E auth \in Sessions, body \in EvaluationBodies :
       nextId.transactions <= MaxAlertTransactions /\ PostTransactions(auth, body, "none")

SpecEvaluation == InitRegistered /\ [][NextEvaluation]_vars

\* ---------------------------------------------------------------------------
\* Properties
\* ---------------------------------------------------------------------------
\* the step served request op (resp is the log of the last request served)
NewResponse == resp'.op # resp.op \/ resp' # resp

Served(op) == resp'.op = op /\ NewResponse

\* the step created a transaction: POST /api/transactions answered 201
Created == Served("POST /api/transactions") /\ resp'.status = 201

\* the step created an expense and the check after it met no storage failure
CreatedExpense == Created /\ resp'.body.type = "expense" /\ resp'.ev.threw = "none"

\* the budget rows of (userId, category) for the wall clock's month and year
CurrentBudgets(userId, category) ==
  {b \in budgets : /\ b.userId = userId
                   /\ b.category = category
                   /\ b.month = getMonth(now) + 1
                   /\ b.year = getFullYear(now)}

\* the exact sum, in hundredths, of the user's expenses of the category dated in
\* the wall clock's month
CurrentSpend(txs, userId, category) ==
  SumCents({t \in txs : /\ t.userId = userId
                        /\ t.category = category
                        /\ t.type = "expense"
                        /\ getMonth(t.date) = getMonth(now)
                        /\ getFullYear(t.date) = getFullYear(now)})

AddedNotifications == notifications' \ notifications

\* C1: when the check runs for a budget with amount > 0, spend of at least 80% and
\* below 100% of the budget (exactly 80% included) creates a notification titled
\* "Budget Alert - <category>", spend of at least 100% (exactly 100% included)
\* creates one titled "Budget Exceeded - <category>" and no "Budget Alert", and
\* spend below 80% creates none.
C1_Thresholds ==
  [][CreatedExpense =>
       \A b \in CurrentBudgets(resp'.auth, resp'.body.category) :
         b.amount > 0 =>
         LET spend  == CurrentSpend(transactions', b.userId, b.category)
             titles == {n.title : n \in AddedNotifications}
         IN  /\ (/\ spend * 100 >= AlertThreshold * b.amount
                 /\ spend * 100 < ExceededThreshold * b.amount)
                  => titles = {<<"Budget Alert", b.category>>}
             /\ spend * 100 >= ExceededThreshold * b.amount
                  => titles = {<<"Budget Exceeded", b.category>>}
             /\ spend * 100 < AlertThreshold * b.amount => titles = {}]_vars

\* C2: when no budget row exists for (user, category, current month, current
\* year), creating an expense in that category, whatever its amount and whatever
\* fails inside the check, answers 201, persists the transaction and leaves the
\* notifications as they were.
C2_NoBudgetNoNotification ==
  [][\A fault \in {"none", "getBudgetByCategory", "getTransactionsByDateRange",
                   "createNotification"} :
       (/\ resp'.op = "POST /api/transactions"
        /\ resp'.auth # NoUser
        /\ insertTransactionSchema(resp'.body)
        /\ resp'.body.type = "expense"
        /\ CurrentBudgets(resp'.auth, resp'.body.category) = {}
        /\ PostTransactions(resp'.auth, resp'.body, fault))
         => /\ resp'.status = 201
            /\ notifications' = notifications
            /\ \E t \in transactions' \ transactions :
                 t.id = resp'.id /\ t.amount = resp'.body.amount]_vars

C2_Witness ==
  /\ resp.op = "POST /api/transactions"
  /\ resp.status = 201
  /\ resp.body.type = "expense"
  /\ resp.body.category = "Bills"
  /\ resp.body.amount = 85000
  /\ resp.ev.ran
  /\ resp.ev.budget = {}
  /\ notifications = {}
  /\ \E t \in transactions : t.id = resp.id

\* C3: creating a transaction of type income never runs the budget check: whether
\* the request succeeds or fails, the notifications stay as they were, also when
\* a budget exists for the category and spend is already at or above 80% of it.
C3_IncomeNeverChecks ==
  [][(Served("POST /api/transactions") /\ resp'.body.type = "income")
       => notifications' = notifications /\ ~resp'.ev.ran]_vars

C3_Witness ==
  /\ resp.op = "POST /api/transactions"
  /\ resp.status = 201
  /\ resp.body.type = "income"
  /\ \E b \in budgets :
       /\ b.category = resp.body.category
       /\ b.userId = resp.auth
       /\ \E t \in transactions :
            /\ t.type = "expense"
            /\ t.category = b.category
            /\ t.userId = b.userId
            /\ t.date = now
            /\ t.amount * 100 >= AlertThreshold * b.amount
  /\ Cardinality(notifications) = 1

\* C4: a failure inside the check (the budget lookup, the range query or the
\* notification insert throws) never fails or rolls back the creation that
\* triggered it: the request answers 201 and the transaction row is persisted.
C4_CheckFailureSwallowed ==
  [][(Served("POST /api/transactions") /\ resp'.ev.threw # "none")
       => /\ resp'.status = 201
          /\ \E t \in transactions' \ transactions :
               /\ t.id = resp'.id
               /\ t.userId = resp'.auth
               /\ t.amount = resp'.body.amount
          /\ transactions \subseteq transactions']_vars

C4_Witness ==
  /\ resp.op = "POST /api/transactions"
  /\ resp.status = 201
  /\ resp.ev.threw = "createNotification"
  /\ resp.ev.ge80
  /\ notifications = {}
  /\ \E t \in transactions : t.id = resp.id

\* C5: alerts are not deduplicated: every expense creation that leaves the
\* current month's spend at or above 80% of the budget adds a notification row
\* of its own and leaves the earlier rows as they were, so two such creations
\* back to back give two rows.
C5_NoDeduplication ==
  [][CreatedExpense =>
       \A b \in CurrentBudgets(resp'.auth, resp'.body.category) :
       (/\ b.amount > 0
        /\ CurrentSpend(transactions', b.userId, b.category) * 100
             >= AlertThreshold * b.amount)
         => /\ notifications \subseteq notifications'
            /\ Cardinality(notifications') = Cardinality(notifications) + 1]_vars

\* C6: a successful expense creation adds exactly one notification when the
\* percentage the check computed is >= 80 and none otherwise, never two; with a
\* Food budget of 1000.00, a first Food expense of 850.00 adds exactly one
\* warning titled "Budget Alert - Food" (85.0%), and a further 200.00 adds
\* exactly one more titled "Budget Exceeded - Food" with overage 50.
C6_OnePerCreation ==
  [][CreatedExpense =>
       /\ notifications \subseteq notifications'
       /\ Cardinality(AddedNotifications) = IF resp'.ev.ge80 THEN 1 ELSE 0
       /\ \A n \in AddedNotifications : n.type = "warning" /\ n.userId = resp'.auth
       /\ (/\ \E b \in budgets : b.category = "Food" /\ b.amount = 100000
           /\ resp'.body.category = "Food"
           /\ resp'.body.date = now)
            => /\ (transactions = {} /\ resp'.body.amount = 85000)
                    => \E n \in notifications' :
                         /\ AddedNotifications = {n}
                         /\ n.title = <<"Budget Alert", "Food">>
                         /\ n.message[2] = 850
               /\ ((\E t \in transactions :
                      transactions = {t} /\ t.amount = 85000 /\ t.category = "Food"
                      /\ t.type = "expense" /\ t.date = now)
                   /\ resp'.body.amount = 20000)
                    => \E n \in notifications' :
                         /\ AddedNotifications = {n}
                         /\ n.title = <<"Budget Exceeded", "Food">>
                         /\ n.message = <<"exceeded", 50000>>]_vars

C6_Witness ==
  /\ {t.amount : t \in transactions} = {85000, 20000}
  /\ \A t \in transactions : t.category = "Food" /\ t.type = "expense" /\ t.date = now
  /\ \E b \in budgets : b.amount = 100000
  /\ {n.title : n \in notifications} =
       {<<"Budget Alert", "Food">>, <<"Budget Exceeded", "Food">>}
  /\ Cardinality(notifications) = 2
  /\ resp.body.amount = 20000
  /\ resp.ev.ge100

\* C7: deleting a transaction, found or not, leaves the notification rows and
\* their fields exactly as they were, also when the deleted expense is the one
\* whose creation raised the alert.
C7_DeleteKeepsNotifications ==
  [][Served("DELETE /api/transactions/:id") => notifications' = notifications]_vars

C7_Witness ==
  /\ resp.op = "DELETE /api/transactions/:id"
  /\ resp.status = 204
  /\ transactions = {}
  /\ \E n \in notifications : n.title = <<"Budget Alert", "Food">> /\ n.userId = resp.auth

\* C8: the check's month and year are the wall clock's, not the transaction's
\* date: creating an expense dated in another month looks up the current month's
\* budget, leaves the new amount out of the spend it sums, and adds a notification
\* if and only if the current month's spend is at least 80% of that budget.
C8_WallClockMonth ==
  [][CreatedExpense =>
       \A b \in CurrentBudgets(resp'.auth, resp'.body.category) :
       (/\ getMonth(resp'.body.date) # getMonth(now)
        /\ b.amount > 0)
         => /\ resp'.ev.budget = {b}
            /\ resp'.ev.spent = CurrentSpend(transactions, b.userId, b.category)
            /\ (AddedNotifications # {}
                  <=> CurrentSpend(transactions', b.userId, b.category) * 100
                        >= AlertThreshold * b.amount)]_vars

\* some row of the table has the id and another owner than the requester
OwnedByOther(rows, id, auth) == \E r \in rows : r.id = id /\ r.userId # auth

\* C9: update, delete and mark-as-read by id only affect a row the requester
\* owns: when the id is that of another user's row (the body being valid and the
\* storage working), the table stays as it was and the answer is 404.
C9_OwnRowsOnly ==
  [][(NewResponse /\ resp'.auth # NoUser /\ resp'.status \notin {400, 500}) =>
       /\ (/\ resp'.op \in {"PUT /api/transactions/:id", "DELETE /api/transactions/:id"}
           /\ OwnedByOther(transactions, resp'.id, resp'.auth))
            => transactions' = transactions /\ resp'.status = 404
       /\ (/\ resp'.op \in {"PUT /api/budgets/:id", "DELETE /api/budgets/:id"}
           /\ OwnedByOther(budgets, resp'.id, resp'.auth))
            => budgets' = budgets /\ resp'.status = 404
       /\ (/\ resp'.op \in {"PUT /api/goals/:id", "DELETE /api/goals/:id"}
           /\ OwnedByOther(goals, resp'.id, resp'.auth))
            => goals' = goals /\ resp'.status = 404
       /\ (/\ resp'.op = "PUT /api/notifications/:id/read"
           /\ OwnedByOther(notifications, resp'.id, resp'.auth))
            => notifications' = notifications /\ resp'.status = 404]_vars

\* the body of a request to op fails the validation the endpoint applies
Malformed(op, body) ==
  \/ op = "POST /api/transactions" /\ ~insertTransactionSchema(body)
  \/ op = "PUT /api/transactions/:id" /\ ~insertTransactionSchemaPartial(body)
  \/ op = "POST /api/budgets" /\ ~insertBudgetSchema(body)
  \/ op = "PUT /api/budgets/:id" /\ ~insertBudgetSchemaPartial(body)
  \/ op = "POST /api/goals" /\ ~insertGoalSchema(body)
  \/ op = "PUT /api/goals/:id" /\ ~insertGoalSchemaPartial(body)
  \/ op = "POST /api/register" /\ ~AllFieldsGiven(body)

\* C10: every mutating endpoint validates the body before it touches storage: a
\* request (of a logged-in user, or a registration) whose body fails validation
\* answers 400, no row of any table is created, changed or deleted, and the
\* budget check does not run, whatever the storage would have done.
C10_ValidateBeforeStorage ==
  [][(/\ NewResponse
      /\ Malformed(resp'.op, resp'.body)
      /\ (resp'.auth # NoUser \/ resp'.op = "POST /api/register"))
       => /\ resp'.status = 400
          /\ UNCHANGED db
          /\ ~resp'.ev.ran]_vars

C10_Witness ==
  /\ resp.op = "PUT /api/budgets/:id"
  /\ resp.status = 400
  /\ resp.body = [category |-> "Bogus"]
  /\ \E b \in budgets : b.id = resp.id /\ b.category = "Food"

\* the table an update, delete or mark-as-read request to op looks the id up in
TableOf(op) ==
  IF op \in {"PUT /api/transactions/:id", "DELETE /api/transactions/:id"}
  THEN transactions
  ELSE IF op \in {"PUT /api/budgets/:id", "DELETE /api/budgets/:id"} THEN budgets
  ELSE IF op \in {"PUT /api/goals/:id", "DELETE /api/goals/:id"} THEN goals
  ELSE notifications

ByIdOps ==
  {"PUT /api/transactions/:id", "DELETE /api/transactions/:id", "PUT /api/budgets/:id",
   "DELETE /api/budgets/:id", "PUT /api/goals/:id", "DELETE /api/goals/:id",
   "PUT /api/notifications/:id/read"}

\* C11: with a valid body, an update, delete or mark-as-read of a logged-in user
\* that names an id no row of the table has answers 404 (the storage working),
\* never 400 and never a success status, and no table changes.
C11_MissingIdNotFound ==
  [][(/\ NewResponse
      /\ resp'.op \in ByIdOps
      /\ resp'.auth # NoUser
      /\ ~Malformed(resp'.op, resp'.body)
      /\ resp'.status # 500
      /\ \A r \in TableOf(resp'.op) : r.id # resp'.id)
       => resp'.status = 404 /\ UNCHANGED db]_vars

\* an update of a goal that was created and then deleted
C11_Witness ==
  /\ resp.op = "PUT /api/goals/:id"
  /\ resp.status = 404
  /\ resp.body = [targetAmount |-> 600]
  /\ nextId.goals > resp.id
  /\ \A g \in goals : g.id # resp.id

\* the month and year a spending request is answered for
SpendingMonth(query) == IF query.month = Absent THEN getMonth(now) + 1 ELSE query.month

SpendingYear(query) == IF query.year = Absent THEN getFullYear(now) ELSE query.year

\* user's expense rows of the category dated from the first of the month, 00:00:00,
\* to its last day, 23:59:59
ExpensesOf(userId, category, month, year) ==
  {t \in transactions : /\ t.userId = userId
                        /\ t.type = "expense"
                        /\ t.category = category
                        /\ getFullYear(t.date) = year
                        /\ getMonth(t.date) + 1 = month
                        /\ t.date % TicksPerMonth <= TicksPerMonth - 2}

\* C12: spending-by-category(user, month, year) has, for each category with an
\* expense row of the user dated within [first of month 00:00:00, last of month
\* 23:59:59], exactly one entry, whose total is the sum of those rows' amounts;
\* income rows, rows outside the month and other users' rows add nothing, and a
\* category without such a row has no entry.
C12_SpendingByCategory ==
  [][(Served("GET /api/analytics/spending") /\ resp'.status = 200) =>
       LET month == SpendingMonth(resp'.body)
           year  == SpendingYear(resp'.body)
       IN  /\ \A e \in resp'.data : e.category \in categoryEnum
           /\ \A c \in categoryEnum :
                LET rows    == ExpensesOf(resp'.auth, c, month, year)
                    entries == {e \in resp'.data : e.category = c}
                IN  IF rows = {} THEN entries = {}
                    ELSE entries = {[category |-> c, total |-> SumCents(rows)]}]_vars

\* two Food expenses of the month are summed while an income row, a row after the
\* last second of the month and another user's Food expense are in the table
C12_Witness ==
  /\ resp.op = "GET /api/analytics/spending"
  /\ resp.status = 200
  /\ resp.auth = 1
  /\ resp.body = [month |-> ThisMonth, year |-> ThisYear]
  /\ resp.data = {[category |-> "Food", total |-> 425]}
  /\ \E t \in transactions : t.userId = 1 /\ t.type = "income" /\ t.date = StartOfClock
  /\ \E t \in transactions : t.userId = 2 /\ t.category = "Food"
  /\ \E t \in transactions : t.userId = 1 /\ t.date > endDate(ThisYear, ThisMonth)

\* the number of months a trends request looks back
MonthsBack(query) == IF query.months = Absent THEN DefaultMonths ELSE query.months

\* the instant monthsBack calendar months before the wall clock: the same tick of
\* the month that many months earlier
MonthsBefore(monthsBack) ==
  (now \div TicksPerMonth - monthsBack) * TicksPerMonth + (now % TicksPerMonth)

\* user's rows dated within [now minus monthsBack months, now]
InWindow(userId, monthsBack) ==
  {t \in transactions : /\ t.userId = userId
                        /\ t.date >= MonthsBefore(monthsBack)
                        /\ t.date <= now}

ServedTrends == Served("GET /api/analytics/trends") /\ resp'.status = 200

\* C13: in monthly-trends every row of the user inside the window adds its amount
\* to exactly one total of exactly one month key, income rows to that month's
\* income and expense rows to its expenses: each entry's income and expenses are
\* the sums over the user's income and expense rows of the window with that key,
\* and every row of the window has an entry for its key.
C13_TrendsPartition ==
  [][ServedTrends =>
       LET rows == InWindow(resp'.auth, MonthsBack(resp'.body))
       IN  /\ \A t \in rows :
                Cardinality({i \in DOMAIN resp'.data :
                               resp'.data[i].month = TO_CHAR(t.date)}) = 1
           /\ \A i \in DOMAIN resp'.data :
                LET key == resp'.data[i].month
                IN  /\ resp'.data[i].income =
                         SumCents({t \in rows : TO_CHAR(t.date) = key
                                                 /\ t.type = "income"})
                    /\ resp'.data[i].expenses =
                         SumCents({t \in rows : TO_CHAR(t.date) = key
                                                 /\ t.type = "expense"})]_vars

\* C14: the monthly-trends result has exactly one entry per month key that has a
\* row of the user within [now minus monthsBack months, now], in strictly
\* ascending order of the key, and no entry for any other month.
C14_TrendsSparseAscending ==
  [][ServedTrends =>
       LET keys == {TO_CHAR(t.date) : t \in InWindow(resp'.auth, MonthsBack(resp'.body))}
       IN  /\ {resp'.data[i].month : i \in DOMAIN resp'.data} = keys
           /\ \A i, j \in DOMAIN resp'.data :
                i < j => KeyLess(resp'.data[i].month, resp'.data[j].month)]_vars

\* C15: notification rows are created only by the budget-alert check of a
\* transaction creation; every existing notification stays in the table with its
\* id, userId, title, message and type, and the only change ever made to one is
\* isRead becoming true, by a mark-as-read request naming its id.
C15_NotificationsOnlyMarkedRead ==
  [][/\ \A n \in notifications :
          \E n2 \in notifications' :
            /\ n2.id = n.id
            /\ \/ n2 = n
               \/ /\ n2 = [n EXCEPT !.isRead = TRUE]
                  /\ Served("PUT /api/notifications/:id/read")
                  /\ resp'.id = n.id
     /\ (\E n2 \in notifications' : \A n \in notifications : n.id # n2.id)
          => Served("POST /api/transactions") /\ resp'.ev.ran]_vars

\* a notification of the check has been marked as read and is still there
C15_Witness ==
  /\ resp.op = "PUT /api/notifications/:id/read"
  /\ resp.status = 204
  /\ \E n \in notifications : n.id = resp.id /\ n.isRead

\* C16: after any sequence of budget creations, updates and deletions there is
\* at most one budget row per (user, category, month, year).
C16_OneBudgetPerKey ==
  \A b1, b2 \in budgets :
    (/\ b1.userId = b2.userId
     /\ b1.category = b2.category
     /\ b1.month = b2.month
     /\ b1.year = b2.year) => b1 = b2

\* the data a response to op carries when it carries none of the user's
NoData(op) ==
  IF op \in {"GET /api/budgets", "GET /api/analytics/spending"} THEN {} ELSE <<>>

\* C17: every transactions, budgets, goals, notifications and analytics endpoint
\* answers a request without a session with 401: the response carries no data,
\* no table changes and the budget check does not run.
C17_SessionRequired ==
  [][(NewResponse /\ resp'.op # "POST /api/register" /\ resp'.auth = NoUser) =>
       /\ resp'.status = 401
       /\ resp'.data = NoData(resp'.op)
       /\ UNCHANGED db
       /\ ~resp'.ev.ran]_vars

\* a delete without a session of an existing budget
C17_Witness ==
  /\ resp.op = "DELETE /api/budgets/:id"
  /\ resp.auth = NoUser
  /\ resp.status = 401
  /\ \E b \in budgets : b.id = resp.id

\* the rows a step adds to a table are one row, owned by the requester, with the
\* id the server assigns
OneOwnRow(added, auth, id) ==
  /\ Cardinality(added) = 1
  /\ \A r \in added : r.userId = auth /\ r.id = id

\* C18: a transaction, budget or goal created through the API is one new row
\* whose owner is the session user of the request and whose id is the one the
\* server assigns, whatever userId or id the body carries; the notifications the
\* check creates for the request are owned by the same session user.
C18_OwnerFromSession ==
  [][(NewResponse /\ resp'.status = 201) =>
       /\ resp'.op = "POST /api/transactions" =>
            /\ OneOwnRow(transactions' \ transactions, resp'.auth, nextId.transactions)
            /\ \A n \in notifications' \ notifications : n.userId = resp'.auth
       /\ resp'.op = "POST /api/budgets" =>
            OneOwnRow(budgets' \ budgets, resp'.auth, nextId.budgets)
       /\ resp'.op = "POST /api/goals" =>
            OneOwnRow(goals' \ goals, resp'.auth, nextId.goals)]_vars

\* user 1 created a budget with a body naming user 2 and an id of its own
C18_Witness ==
  /\ resp.op = "POST /api/budgets"
  /\ resp.status = 201
  /\ resp.auth = 1
  /\ "userId" \in DOMAIN resp.body
  /\ resp.body.userId = 2
  /\ \E b \in budgets : b.id = resp.id /\ b.userId = 1 /\ b.id # resp.body.id

\* some user has the value the body gives for the field
Taken(field, body) == \E u \in users : u[field] = body[field]

UniqueUsers ==
  \A u1, u2 \in users :
    (u1.username = u2.username \/ u1.email = u2.email) => u1 = u2

\* C19: a registration (all fields given, the storage working) whose username or
\* email some user already has answers 400 and creates no row; the message is
\* "Username already exists." when the username is taken and "Email already
\* exists." when the email is (one of the two when both are); usernames and
\* emails are unique among the users in every reachable state.
C19_DuplicateRegistration ==
  /\ [][(/\ Served("POST /api/register")
          /\ PostRegister(resp'.body, "none")
          /\ AllFieldsGiven(resp'.body)
          /\ (Taken("username", resp'.body) \/ Taken("email", resp'.body)))
           => /\ resp'.status = 400
              /\ UNCHANGED db
              /\ \/ /\ Taken("username", resp'.body)
                    /\ resp'.data.error = "Username already exists."
                 \/ /\ Taken("email", resp'.body)
                    /\ resp'.data.error = "Email already exists."]_vars
  /\ []UniqueUsers

\* bob registers with alice's email
C19_Witness ==
  /\ resp.op = "POST /api/register"
  /\ resp.status = 400
  /\ resp.data = [error |-> "Email already exists."]
  /\ ~Taken("username", resp.body)
  /\ Taken("email", resp.body)

\* the rows of every table that userId owns
RowsOf(userId) ==
  <<{t \in transactions : t.userId = userId}, {b \in budgets : b.userId = userId},
    {g \in goals : g.userId = userId}, {n \in notifications : n.userId = userId}>>

\* what the six reads return to userId
ReadsOf(userId) ==
  <<getTransactions(userId, DefaultLimit), getBudgets(userId, Absent, Absent),
    getBudgets(userId, ThisMonth, ThisYear), getGoals(userId),
    getNotifications(userId), getSpendingByCategory(userId, ThisMonth, ThisYear),
    getMonthlyTrends(userId, DefaultMonths)>>

\* C20: the lists of transactions, budgets, goals and notifications a user reads
\* hold only rows whose userId is that user, and what the six reads (the two
\* aggregations included) return to a user is the same before and after every
\* step that changes rows of the tables but none of the user's own (the clock
\* staying as it was).
C20_ReadIsolation ==
  [][/\ (NewResponse /\ resp'.status = 200) =>
          /\ resp'.op \in {"GET /api/transactions", "GET /api/goals",
                           "GET /api/notifications"}
               => \A i \in DOMAIN resp'.data : resp'.data[i].userId = resp'.auth
          /\ resp'.op = "GET /api/budgets"
               => \A b \in resp'.data : b.userId = resp'.auth
     /\ (db' # db /\ now' = now) =>
          \A u \in users :
            RowsOf(u.id)' = RowsOf(u.id) => ReadsOf(u.id)' = ReadsOf(u.id)]_vars

\* user 2 reads an empty list of notifications while user 1 has one
C20_Witness ==
  /\ resp.op = "GET /api/notifications"
  /\ resp.status = 200
  /\ resp.auth = 2
  /\ resp.data = <<>>
  /\ \E n \in notifications : n.userId = 1

\* the user's expense rows of the category among txs dated from the first of the
\* month to its last day, 23:59:59
ExpenseRows(txs, userId, category, month, year) ==
  {t \in txs : /\ t.userId = userId
               /\ t.type = "expense"
               /\ t.category = category
               /\ getFullYear(t.date) = year
               /\ getMonth(t.date) + 1 = month
               /\ t.date % TicksPerMonth <= TicksPerMonth - 2}

\* the step created an expense whose check found a budget and summed the month
Summed == CreatedExpense /\ resp'.ev.budget # {}

\* C21: the totalSpent of the check is exactly the sum of the amounts of the
\* requester's expense rows of the checked category dated within the checked
\* month, the row just created included: the rows it sums are those (ev.spent is
\* their sum in hundredths), and totalSpent is that sum as a number.
C21_TotalSpentIsTheSum ==
  [][Summed =>
       LET rows == ExpenseRows(transactions', resp'.auth, resp'.body.category,
                               getMonth(now) + 1, getFullYear(now))
       IN  /\ resp'.ev.spent = SumCents(rows)
           /\ resp'.ev.totalSpent = parseFloat(SumCents(rows))]_vars

\* the part of C21 that is about which rows are summed
SummedRows ==
  [][Summed =>
       resp'.ev.spent = SumCents(ExpenseRows(transactions', resp'.auth,
                                             resp'.body.category,
                                             getMonth(now) + 1, getFullYear(now)))]_vars

\* request q stands at the read of the month's rows and the read can complete:
\* the budget it found is at hand and the table answers
ReadMonthReady(q) ==
  /\ q.pc = "getTransactionsByDateRange"
  /\ \/ q.fault = "getTransactionsByDateRange"
     \/ /\ q.budget # {}
        /\ getTransactionsByDateRange(
             transactions, q.auth,
             startDate(getFullYear(now), getMonth(now) + 1),
             endDate(getFullYear(now), getMonth(now) + 1)) # {}

\* no request in flight waits for another: its next storage call or its
\* response can happen
NoBlocking ==
  \A q \in requests :
    \/ ENABLED StoreTransaction(q)
    \/ ENABLED LookupBudget(q)
    \/ ReadMonthReady(q)
    \/ ENABLED InsertNotification(q)
    \/ ENABLED Respond(q)

\* C22: transaction creations of the same user and category interleave without
\* locking: a request in flight can always take its next step; a request whose
\* own insert does not fail is answered 201 with its row in the table, whatever
\* other requests are in flight; and the notification a request decided on is
\* inserted beside those of other requests, so two requests that both decide to
\* notify leave two notifications.
C22_ConcurrentCreationsBothNotify ==
  /\ []NoBlocking
  /\ [][\A q \in requests :
          /\ (Respond(q) \/ StoreTransaction(q)) =>
               IF q.fault = "createTransaction" THEN resp'.status = 500
               ELSE transactions \subseteq transactions'
                    /\ (q.pc = "respond" =>
                          resp'.status = 201 /\ q.transaction \in transactions')
          /\ InsertNotification(q) =>
               /\ notifications \subseteq notifications'
               /\ Cardinality(notifications' \ notifications) = Cardinality(q.ev.insert)
               /\ \A d \in q.ev.insert :
                    \E n \in notifications' \ notifications :
                      n.userId = d.userId /\ n.title = d.title /\ n.message = d.message]_vars

\* two requests of user 1 for Food have both decided to notify and neither has
\* inserted its notification yet
C22_Witness ==
  \E q1, q2 \in requests :
    /\ q1.r # q2.r
    /\ q1.auth = q2.auth
    /\ q1.body.category = q2.body.category
    /\ q1.pc = "createNotification"
    /\ q2.pc = "createNotification"
    /\ q1.ev.insert # {}
    /\ q2.ev.insert # {}
    /\ notifications = {}

\* the notification d that a request decided on is in the table
Inserted(d, table) ==
  \E n \in table : n.userId = d.userId /\ n.title = d.title /\ n.message = d.message

\* C23: within one transaction-creation request the steps are strictly ordered:
\* the evaluator's reads and its notification insert happen only when the
\* request's transaction row is in the table, the notification insert only after
\* both reads, and the 201 response only when the notification the request
\* decided on is in the table; a request whose transaction insert failed is
\* answered 500 without any evaluator step, so no notification is inserted for it.
C23_StepsStrictlyOrdered ==
  [][\A q \in requests :
       /\ (LookupBudget(q) \/ ReadMonth(q) \/ InsertNotification(q)) =>
            /\ q.fault # "createTransaction"
            /\ q.transaction \in transactions
       /\ ReadMonth(q) => q.ev.ran /\ q.budget # {}
       /\ InsertNotification(q) =>
            /\ q.ev.ran
            /\ q.ev.budget # {}
            /\ q.ev.insert # {}
       /\ Respond(q) =>
            /\ resp'.status = 201
            /\ q.transaction \in transactions
            /\ resp'.id = q.transaction.id
            /\ \A d \in q.ev.insert : Inserted(d, notifications)
            /\ notifications' = notifications
       /\ (StoreTransaction(q) /\ q.fault = "createTransaction") =>
            /\ resp'.status = 500
            /\ q.ev = NoEval
            /\ UNCHANGED <<transactions, notifications>>
            /\ q \notin requests']_vars

\* a request that decided on a notification has been answered 201
C23_Witness ==
  /\ resp.op = "POST /api/transactions"
  /\ resp.status = 201
  /\ resp.ev.insert # {}
  /\ \A d \in resp.ev.insert : Inserted(d, notifications)

\* C24: whenever the check computes percentage = totalSpent / budgetAmount * 100
\* the amount of the budget row it divides by is positive: no budget row with a
\* zero or negative amount is stored and reaches the division.
C24_BudgetAmountPositive ==
  [][Summed => \A b \in resp'.ev.budget : b \in budgets /\ b.amount > 0]_vars

TransactionOperations ==
  {"POST /api/transactions", "PUT /api/transactions/:id", "DELETE /api/transactions/:id"}

\* C25: no transaction operation (create, update or delete, with or without an
\* alert, whatever its answer) changes a goal: the goals table, and so every
\* goal's currentAmount and isCompleted, is the same before and after it.
C25_TransactionsLeaveGoals ==
  [][(NewResponse /\ resp'.op \in TransactionOperations) =>
       /\ goals' = goals
       /\ \A g \in goals : \E h \in goals' :
            /\ h.id = g.id
            /\ h.currentAmount = g.currentAmount
            /\ h.isCompleted = g.isCompleted]_vars

\* a transaction of a user who owns a goal has been updated
C25_Witness ==
  /\ resp.op = "PUT /api/transactions/:id"
  /\ resp.status = 200
  /\ "amount" \in DOMAIN resp.body
  /\ \E g \in goals : g.userId = resp.auth
  /\ \E t \in transactions : t.id = resp.id /\ t.userId = resp.auth

\* the total GET /api/analytics/spending reports for the category, in hundredths,
\* an absent category taken as 0
SpendingTotal(userId, category, month, year) ==
  LET reported == {x \in getSpendingByCategory(userId, month, year) :
                     x.category = category}
  IN  IF reported = {} THEN 0 ELSE (CHOOSE x \in reported : TRUE).total

\* C26: the two aggregation paths agree: the totalSpent the check computes for a
\* user, category, month and year (rows by date range, filtered to the category's
\* expenses, summed) is the number that spending-by-category reports as that
\* category's total, an absent category counting as 0.
C26_AggregationsAgree ==
  [][Summed =>
       \A u \in {resp'.auth}, c \in {resp'.body.category} :
         resp'.ev.totalSpent =
           parseFloat(SpendingTotal(u, c, getMonth(now) + 1, getFullYear(now))')]_vars

\* the two paths select the same rows: the exact sum of the rows the check adds
\* up is the reported total
SelectionsAgree ==
  [][Summed =>
       \A u \in {resp'.auth}, c \in {resp'.body.category} :
         resp'.ev.spent =
           SpendingTotal(u, c, getMonth(now) + 1, getFullYear(now))']_vars

\* C27: a notification's read flag is monotonic: a row enters the table with
\* isRead false; no step turns the flag of a row from true to false; a
\* mark-as-read request that succeeds leaves the row it names read; and marking a
\* row that is already read succeeds (204, unless the session is missing or the
\* storage call fails) and changes no table.
C27_ReadFlagMonotonic ==
  [][/\ \A n2 \in notifications' :
          (\A n \in notifications : n.id # n2.id) => ~n2.isRead
     /\ \A n \in notifications, n2 \in notifications' :
          (n2.id = n.id /\ n.isRead) => n2.isRead
     /\ (Served("PUT /api/notifications/:id/read") /\ resp'.status = 204) =>
          \E n2 \in notifications' : n2.id = resp'.id /\ n2.isRead
     /\ (/\ Served("PUT /api/notifications/:id/read")
         /\ \E n \in notifications : n.id = resp'.id /\ n.isRead
         /\ resp'.auth # NoUser
         /\ resp'.status # 500) =>
          /\ resp'.status = 204
          /\ UNCHANGED db]_vars

\* the notification of the check has been marked as read (a second mark of it
\* ends in this state too)
C27_Witness ==
  /\ resp.op = "PUT /api/notifications/:id/read"
  /\ resp.status = 204
  /\ notifications # {}
  /\ \A n \in notifications : n.id = resp.id /\ n.isRead /\ n.userId = resp.auth

\* C28: alert evaluation is isolated per user: the check after an expense of user
\* u looks at a budget row of u only, adds only notifications owned by u and
\* leaves the notifications already there as they are, and the notification it
\* decides on is the one the check yields from u's own transactions and u's
\* budget row alone, so other users' budgets and transactions have no part in it.
C28_EvaluationIsolated ==
  [][CreatedExpense =>
       \A u \in {resp'.auth}, c \in {resp'.body.category} :
         LET own   == {t \in transactions' : t.userId = u}
             found == {b \in budgets : /\ b.userId = u
                                       /\ b.category = c
                                       /\ b.month = getMonth(now) + 1
                                       /\ b.year = getFullYear(now)}
         IN  /\ resp'.ev.budget \subseteq found
             /\ resp'.ev.budget = {} <=> found = {}
             /\ notifications \subseteq notifications'
             /\ \A n \in AddedNotifications : n.userId = u
             /\ found = {} => AddedNotifications = {}
             /\ \A b \in resp'.ev.budget :
                  \E rows \in getTransactionsByDateRange(
                                own, u, startDate(getFullYear(now), getMonth(now) + 1),
                                endDate(getFullYear(now), getMonth(now) + 1)) :
                    /\ resp'.ev.insert = AlertFor(b, rows, u, c, "none").insert
                    /\ AddedNotifications =
                         {createNotification(d) : d \in resp'.ev.insert}]_vars

\* a user's expense has raised a notification while another user has a budget
\* and an expense of the same category and month
C28_Witness ==
  /\ resp.op = "POST /api/transactions"
  /\ resp.status = 201
  /\ resp.ev.insert # {}
  /\ \E n \in notifications : n.userId = resp.auth
  /\ \E b \in budgets : b.userId # resp.auth /\ b.category = resp.body.category
  /\ \E t \in transactions :
       /\ t.userId # resp.auth
       /\ t.category = resp.body.category
       /\ t.type = "expense"
       /\ t.amount > 0
====
